---- MODULE Spec2Model ----
(***************************************************************************)
(* Model of the Binance futures trading bot: the validators of             *)
(* bot/validators.py, the gateway of bot/client.py and the orchestration   *)
(* of cli.py (main), with the library calls they rest on (str.upper,       *)
(* str.lower, str.strip, re.match, float, repr of a float, argparse) as    *)
(* CPython 3.11 (Unicode 14) computes them.                                *)
(*                                                                         *)
(* A Python str is the sequence of its code points: 'BUY' is << 66, 85,    *)
(* 89 >>, written Str(<< "B","U","Y" >>).                                   *)
(* A Python float is a record.  [k |-> "num", neg, ds, pt] is the double   *)
(* whose shortest round-trip decimal (the digits repr() prints) is         *)
(* (-1)^neg * 0.d1d2...dn * 10^pt, ds = << d1, ..., dn >> with d1 and dn   *)
(* not 0; a zero has no digit.  There is one such record per finite        *)
(* double, and the order of the doubles is the order of these decimals.    *)
(* "nan" and "inf" are the IEEE specials and "err" stands for the          *)
(* ValueError float() raises.                                              *)
(* An optional value (None or a value) is a sequence of length 0 or 1.     *)
(*                                                                         *)
(* A run of main is a sequence of steps.  Each except clause of main is a  *)
(* step of its own: a KeyboardInterrupt may arrive before or after the     *)
(* effect of a step (the prompt, the construction of the client, the       *)
(* create-order call) and inside the clause that handles its failure.     *)
(* The clause "except KeyboardInterrupt" is a step as well: a second       *)
(* KeyboardInterrupt arriving in it is caught by no clause.                *)
(***************************************************************************)
EXTENDS Integers, Sequences, FiniteSets

None == << >>
Some(x) == << x >>

Min(S) == CHOOSE x \in S : \A y \in S : x <= y
Max(S) == CHOOSE x \in S : \A y \in S : x >= y

\* ------------------------------------------------------------------ str

\* The printable ASCII characters chr(32) to chr(95) and chr(97) to chr(126).
AsciiLow ==
  << " ", "!", "\"", "#", "$", "%", "&", "'", "(", ")", "*", "+", ",", "-", ".", "/",
     "0", "1", "2", "3", "4", "5", "6", "7", "8", "9", ":", ";", "<", "=", ">", "?",
     "@", "A", "B", "C", "D", "E", "F", "G", "H", "I", "J", "K", "L", "M", "N", "O",
     "P", "Q", "R", "S", "T", "U", "V", "W", "X", "Y", "Z", "[", "\\", "]", "^", "_" >>
AsciiHigh ==
  << "a", "b", "c", "d", "e", "f", "g", "h", "i", "j", "k", "l", "m", "n", "o",
     "p", "q", "r", "s", "t", "u", "v", "w", "x", "y", "z", "{", "|", "}", "~" >>

\* ord(c) of one of these characters, and the str of a tuple of them.
ord(c) ==
  IF \E i \in 1..Len(AsciiLow) : AsciiLow[i] = c
  THEN 31 + (CHOOSE i \in 1..Len(AsciiLow) : AsciiLow[i] = c)
  ELSE 96 + (CHOOSE i \in 1..Len(AsciiHigh) : AsciiHigh[i] = c)
Str(cs) == [ i \in 1..Len(cs) |-> ord(cs[i]) ]

Range(s) == { s[i] : i \in 1..Len(s) }
Positions(c, s) == { i \in 1..Len(s) : s[i] = c }
StartsWith(s, p) == Len(p) <= Len(s) /\ SubSeq(s, 1, Len(p)) = p

\* A row << lo, hi, step, delta >> of a case table maps the code points lo,
\* lo + step, ..., hi to themselves plus delta.
InRow(c, r) == r[1] <= c /\ c <= r[2] /\ (c - r[1]) % r[3] = 0

\* The code points str.upper() maps to one other code point.
UpperRanges ==
  {
    <<97,122,1,-32>>, <<181,181,1,743>>, <<224,246,1,-32>>, <<248,254,1,-32>>, <<255,255,1,121>>, <<257,303,2,-1>>,
    <<305,305,1,-232>>, <<307,311,2,-1>>, <<314,328,2,-1>>, <<331,375,2,-1>>, <<378,382,2,-1>>, <<383,383,1,-300>>,
    <<384,384,1,195>>, <<387,389,2,-1>>, <<392,392,1,-1>>, <<396,396,1,-1>>, <<402,402,1,-1>>, <<405,405,1,97>>,
    <<409,409,1,-1>>, <<410,410,1,163>>, <<414,414,1,130>>, <<417,421,2,-1>>, <<424,424,1,-1>>, <<429,429,1,-1>>,
    <<432,432,1,-1>>, <<436,438,2,-1>>, <<441,441,1,-1>>, <<445,445,1,-1>>, <<447,447,1,56>>, <<453,453,1,-1>>,
    <<454,454,1,-2>>, <<456,456,1,-1>>, <<457,457,1,-2>>, <<459,459,1,-1>>, <<460,460,1,-2>>, <<462,476,2,-1>>,
    <<477,477,1,-79>>, <<479,495,2,-1>>, <<498,498,1,-1>>, <<499,499,1,-2>>, <<501,501,1,-1>>, <<505,543,2,-1>>,
    <<547,563,2,-1>>, <<572,572,1,-1>>, <<575,576,1,10815>>, <<578,578,1,-1>>, <<583,591,2,-1>>, <<592,592,1,10783>>,
    <<593,593,1,10780>>, <<594,594,1,10782>>, <<595,595,1,-210>>, <<596,596,1,-206>>, <<598,599,1,-205>>, <<601,601,1,-202>>,
    <<603,603,1,-203>>, <<604,604,1,42319>>, <<608,608,1,-205>>, <<609,609,1,42315>>, <<611,611,1,-207>>, <<613,613,1,42280>>,
    <<614,614,1,42308>>, <<616,616,1,-209>>, <<617,617,1,-211>>, <<618,618,1,42308>>, <<619,619,1,10743>>, <<620,620,1,42305>>,
    <<623,623,1,-211>>, <<625,625,1,10749>>, <<626,626,1,-213>>, <<629,629,1,-214>>, <<637,637,1,10727>>, <<640,640,1,-218>>,
    <<642,642,1,42307>>, <<643,643,1,-218>>, <<647,647,1,42282>>, <<648,648,1,-218>>, <<649,649,1,-69>>, <<650,651,1,-217>>,
    <<652,652,1,-71>>, <<658,658,1,-219>>, <<669,669,1,42261>>, <<670,670,1,42258>>, <<837,837,1,84>>, <<881,883,2,-1>>,
    <<887,887,1,-1>>, <<891,893,1,130>>, <<940,940,1,-38>>, <<941,943,1,-37>>, <<945,961,1,-32>>, <<962,962,1,-31>>,
    <<963,971,1,-32>>, <<972,972,1,-64>>, <<973,974,1,-63>>, <<976,976,1,-62>>, <<977,977,1,-57>>, <<981,981,1,-47>>,
    <<982,982,1,-54>>, <<983,983,1,-8>>, <<985,1007,2,-1>>, <<1008,1008,1,-86>>, <<1009,1009,1,-80>>, <<1010,1010,1,7>>,
    <<1011,1011,1,-116>>, <<1013,1013,1,-96>>, <<1016,1016,1,-1>>, <<1019,1019,1,-1>>, <<1072,1103,1,-32>>, <<1104,1119,1,-80>>,
    <<1121,1153,2,-1>>, <<1163,1215,2,-1>>, <<1218,1230,2,-1>>, <<1231,1231,1,-15>>, <<1233,1327,2,-1>>, <<1377,1414,1,-48>>,
    <<4304,4346,1,3008>>, <<4349,4351,1,3008>>, <<5112,5117,1,-8>>, <<7296,7296,1,-6254>>, <<7297,7297,1,-6253>>, <<7298,7298,1,-6244>>,
    <<7299,7300,1,-6242>>, <<7301,7301,1,-6243>>, <<7302,7302,1,-6236>>, <<7303,7303,1,-6181>>, <<7304,7304,1,35266>>, <<7545,7545,1,35332>>,
    <<7549,7549,1,3814>>, <<7566,7566,1,35384>>, <<7681,7829,2,-1>>, <<7835,7835,1,-59>>, <<7841,7935,2,-1>>, <<7936,7943,1,8>>,
    <<7952,7957,1,8>>, <<7968,7975,1,8>>, <<7984,7991,1,8>>, <<8000,8005,1,8>>, <<8017,8023,2,8>>, <<8032,8039,1,8>>,
    <<8048,8049,1,74>>, <<8050,8053,1,86>>, <<8054,8055,1,100>>, <<8056,8057,1,128>>, <<8058,8059,1,112>>, <<8060,8061,1,126>>,
    <<8112,8113,1,8>>, <<8126,8126,1,-7205>>, <<8144,8145,1,8>>, <<8160,8161,1,8>>, <<8165,8165,1,7>>, <<8526,8526,1,-28>>,
    <<8560,8575,1,-16>>, <<8580,8580,1,-1>>, <<9424,9449,1,-26>>, <<11312,11359,1,-48>>, <<11361,11361,1,-1>>, <<11365,11365,1,-10795>>,
    <<11366,11366,1,-10792>>, <<11368,11372,2,-1>>, <<11379,11379,1,-1>>, <<11382,11382,1,-1>>, <<11393,11491,2,-1>>, <<11500,11502,2,-1>>,
    <<11507,11507,1,-1>>, <<11520,11557,1,-7264>>, <<11559,11559,1,-7264>>, <<11565,11565,1,-7264>>, <<42561,42605,2,-1>>, <<42625,42651,2,-1>>,
    <<42787,42799,2,-1>>, <<42803,42863,2,-1>>, <<42874,42876,2,-1>>, <<42879,42887,2,-1>>, <<42892,42892,1,-1>>, <<42897,42899,2,-1>>,
    <<42900,42900,1,48>>, <<42903,42921,2,-1>>, <<42933,42947,2,-1>>, <<42952,42954,2,-1>>, <<42961,42961,1,-1>>, <<42967,42969,2,-1>>,
    <<42998,42998,1,-1>>, <<43859,43859,1,-928>>, <<43888,43967,1,-38864>>, <<65345,65370,1,-32>>, <<66600,66639,1,-40>>, <<66776,66811,1,-40>>,
    <<66967,67003,2,-39>>, <<66968,66976,2,-39>>, <<66980,66992,2,-39>>, <<66996,67000,2,-39>>, <<67004,67004,1,-39>>, <<68800,68850,1,-64>>,
    <<71872,71903,1,-32>>, <<93792,93823,1,-32>>, <<125218,125251,1,-34>> }

\* The code points str.upper() maps to several code points.
UpperMulti ==
  {
    <<223, <<83,83>>>>, <<329, <<700,78>>>>, <<496, <<74,780>>>>,
    <<912, <<921,776,769>>>>, <<944, <<933,776,769>>>>, <<1415, <<1333,1362>>>>,
    <<7830, <<72,817>>>>, <<7831, <<84,776>>>>, <<7832, <<87,778>>>>,
    <<7833, <<89,778>>>>, <<7834, <<65,702>>>>, <<8016, <<933,787>>>>,
    <<8018, <<933,787,768>>>>, <<8020, <<933,787,769>>>>, <<8022, <<933,787,834>>>>,
    <<8064, <<7944,921>>>>, <<8065, <<7945,921>>>>, <<8066, <<7946,921>>>>,
    <<8067, <<7947,921>>>>, <<8068, <<7948,921>>>>, <<8069, <<7949,921>>>>,
    <<8070, <<7950,921>>>>, <<8071, <<7951,921>>>>, <<8072, <<7944,921>>>>,
    <<8073, <<7945,921>>>>, <<8074, <<7946,921>>>>, <<8075, <<7947,921>>>>,
    <<8076, <<7948,921>>>>, <<8077, <<7949,921>>>>, <<8078, <<7950,921>>>>,
    <<8079, <<7951,921>>>>, <<8080, <<7976,921>>>>, <<8081, <<7977,921>>>>,
    <<8082, <<7978,921>>>>, <<8083, <<7979,921>>>>, <<8084, <<7980,921>>>>,
    <<8085, <<7981,921>>>>, <<8086, <<7982,921>>>>, <<8087, <<7983,921>>>>,
    <<8088, <<7976,921>>>>, <<8089, <<7977,921>>>>, <<8090, <<7978,921>>>>,
    <<8091, <<7979,921>>>>, <<8092, <<7980,921>>>>, <<8093, <<7981,921>>>>,
    <<8094, <<7982,921>>>>, <<8095, <<7983,921>>>>, <<8096, <<8040,921>>>>,
    <<8097, <<8041,921>>>>, <<8098, <<8042,921>>>>, <<8099, <<8043,921>>>>,
    <<8100, <<8044,921>>>>, <<8101, <<8045,921>>>>, <<8102, <<8046,921>>>>,
    <<8103, <<8047,921>>>>, <<8104, <<8040,921>>>>, <<8105, <<8041,921>>>>,
    <<8106, <<8042,921>>>>, <<8107, <<8043,921>>>>, <<8108, <<8044,921>>>>,
    <<8109, <<8045,921>>>>, <<8110, <<8046,921>>>>, <<8111, <<8047,921>>>>,
    <<8114, <<8122,921>>>>, <<8115, <<913,921>>>>, <<8116, <<902,921>>>>,
    <<8118, <<913,834>>>>, <<8119, <<913,834,921>>>>, <<8124, <<913,921>>>>,
    <<8130, <<8138,921>>>>, <<8131, <<919,921>>>>, <<8132, <<905,921>>>>,
    <<8134, <<919,834>>>>, <<8135, <<919,834,921>>>>, <<8140, <<919,921>>>>,
    <<8146, <<921,776,768>>>>, <<8147, <<921,776,769>>>>, <<8150, <<921,834>>>>,
    <<8151, <<921,776,834>>>>, <<8162, <<933,776,768>>>>, <<8163, <<933,776,769>>>>,
    <<8164, <<929,787>>>>, <<8166, <<933,834>>>>, <<8167, <<933,776,834>>>>,
    <<8178, <<8186,921>>>>, <<8179, <<937,921>>>>, <<8180, <<911,921>>>>,
    <<8182, <<937,834>>>>, <<8183, <<937,834,921>>>>, <<8188, <<937,921>>>>,
    <<64256, <<70,70>>>>, <<64257, <<70,73>>>>, <<64258, <<70,76>>>>,
    <<64259, <<70,70,73>>>>, <<64260, <<70,70,76>>>>, <<64261, <<83,84>>>>,
    <<64262, <<83,84>>>>, <<64275, <<1348,1350>>>>, <<64276, <<1348,1333>>>>,
    <<64277, <<1348,1339>>>>, <<64278, <<1358,1350>>>>, <<64279, <<1348,1341>>>> }

\* The code points str.lower() maps to one other code point (the capital
\* sigma, 931, apart: its lower case depends on its place in the word).
LowerRanges ==
  {
    <<65,90,1,32>>, <<192,214,1,32>>, <<216,222,1,32>>, <<256,302,2,1>>, <<306,310,2,1>>, <<313,327,2,1>>,
    <<330,374,2,1>>, <<376,376,1,-121>>, <<377,381,2,1>>, <<385,385,1,210>>, <<386,388,2,1>>, <<390,390,1,206>>,
    <<391,391,1,1>>, <<393,394,1,205>>, <<395,395,1,1>>, <<398,398,1,79>>, <<399,399,1,202>>, <<400,400,1,203>>,
    <<401,401,1,1>>, <<403,403,1,205>>, <<404,404,1,207>>, <<406,406,1,211>>, <<407,407,1,209>>, <<408,408,1,1>>,
    <<412,412,1,211>>, <<413,413,1,213>>, <<415,415,1,214>>, <<416,420,2,1>>, <<422,422,1,218>>, <<423,423,1,1>>,
    <<425,425,1,218>>, <<428,428,1,1>>, <<430,430,1,218>>, <<431,431,1,1>>, <<433,434,1,217>>, <<435,437,2,1>>,
    <<439,439,1,219>>, <<440,440,1,1>>, <<444,444,1,1>>, <<452,452,1,2>>, <<453,453,1,1>>, <<455,455,1,2>>,
    <<456,456,1,1>>, <<458,458,1,2>>, <<459,475,2,1>>, <<478,494,2,1>>, <<497,497,1,2>>, <<498,500,2,1>>,
    <<502,502,1,-97>>, <<503,503,1,-56>>, <<504,542,2,1>>, <<544,544,1,-130>>, <<546,562,2,1>>, <<570,570,1,10795>>,
    <<571,571,1,1>>, <<573,573,1,-163>>, <<574,574,1,10792>>, <<577,577,1,1>>, <<579,579,1,-195>>, <<580,580,1,69>>,
    <<581,581,1,71>>, <<582,590,2,1>>, <<880,882,2,1>>, <<886,886,1,1>>, <<895,895,1,116>>, <<902,902,1,38>>,
    <<904,906,1,37>>, <<908,908,1,64>>, <<910,911,1,63>>, <<913,929,1,32>>, <<932,939,1,32>>, <<975,975,1,8>>,
    <<984,1006,2,1>>, <<1012,1012,1,-60>>, <<1015,1015,1,1>>, <<1017,1017,1,-7>>, <<1018,1018,1,1>>, <<1021,1023,1,-130>>,
    <<1024,1039,1,80>>, <<1040,1071,1,32>>, <<1120,1152,2,1>>, <<1162,1214,2,1>>, <<1216,1216,1,15>>, <<1217,1229,2,1>>,
    <<1232,1326,2,1>>, <<1329,1366,1,48>>, <<4256,4293,1,7264>>, <<4295,4295,1,7264>>, <<4301,4301,1,7264>>, <<5024,5103,1,38864>>,
    <<5104,5109,1,8>>, <<7312,7354,1,-3008>>, <<7357,7359,1,-3008>>, <<7680,7828,2,1>>, <<7838,7838,1,-7615>>, <<7840,7934,2,1>>,
    <<7944,7951,1,-8>>, <<7960,7965,1,-8>>, <<7976,7983,1,-8>>, <<7992,7999,1,-8>>, <<8008,8013,1,-8>>, <<8025,8031,2,-8>>,
    <<8040,8047,1,-8>>, <<8072,8079,1,-8>>, <<8088,8095,1,-8>>, <<8104,8111,1,-8>>, <<8120,8121,1,-8>>, <<8122,8123,1,-74>>,
    <<8124,8124,1,-9>>, <<8136,8139,1,-86>>, <<8140,8140,1,-9>>, <<8152,8153,1,-8>>, <<8154,8155,1,-100>>, <<8168,8169,1,-8>>,
    <<8170,8171,1,-112>>, <<8172,8172,1,-7>>, <<8184,8185,1,-128>>, <<8186,8187,1,-126>>, <<8188,8188,1,-9>>, <<8486,8486,1,-7517>>,
    <<8490,8490,1,-8383>>, <<8491,8491,1,-8262>>, <<8498,8498,1,28>>, <<8544,8559,1,16>>, <<8579,8579,1,1>>, <<9398,9423,1,26>>,
    <<11264,11311,1,48>>, <<11360,11360,1,1>>, <<11362,11362,1,-10743>>, <<11363,11363,1,-3814>>, <<11364,11364,1,-10727>>, <<11367,11371,2,1>>,
    <<11373,11373,1,-10780>>, <<11374,11374,1,-10749>>, <<11375,11375,1,-10783>>, <<11376,11376,1,-10782>>, <<11378,11378,1,1>>, <<11381,11381,1,1>>,
    <<11390,11391,1,-10815>>, <<11392,11490,2,1>>, <<11499,11501,2,1>>, <<11506,11506,1,1>>, <<42560,42604,2,1>>, <<42624,42650,2,1>>,
    <<42786,42798,2,1>>, <<42802,42862,2,1>>, <<42873,42875,2,1>>, <<42877,42877,1,-35332>>, <<42878,42886,2,1>>, <<42891,42891,1,1>>,
    <<42893,42893,1,-42280>>, <<42896,42898,2,1>>, <<42902,42920,2,1>>, <<42922,42922,1,-42308>>, <<42923,42923,1,-42319>>, <<42924,42924,1,-42315>>,
    <<42925,42925,1,-42305>>, <<42926,42926,1,-42308>>, <<42928,42928,1,-42258>>, <<42929,42929,1,-42282>>, <<42930,42930,1,-42261>>, <<42931,42931,1,928>>,
    <<42932,42946,2,1>>, <<42948,42948,1,-48>>, <<42949,42949,1,-42307>>, <<42950,42950,1,-35384>>, <<42951,42953,2,1>>, <<42960,42960,1,1>>,
    <<42966,42968,2,1>>, <<42997,42997,1,1>>, <<65313,65338,1,32>>, <<66560,66599,1,40>>, <<66736,66771,1,40>>, <<66928,66964,2,39>>,
    <<66929,66937,2,39>>, <<66941,66953,2,39>>, <<66957,66961,2,39>>, <<66965,66965,1,39>>, <<68736,68786,1,64>>, <<71840,71871,1,32>>,
    <<93760,93791,1,32>>, <<125184,125217,1,34>> }

\* The code point str.lower() maps to several code points.
LowerMulti ==
  {
    <<304, <<105,775>>>> }

\* The ranges << lo, hi >> of the cased code points that are not
\* case-ignorable, and of the case-ignorable ones.
CasedRanges ==
  {
    <<65,90>>, <<97,122>>, <<170,170>>, <<181,181>>, <<186,186>>, <<192,214>>,
    <<216,246>>, <<248,442>>, <<444,447>>, <<452,659>>, <<661,687>>, <<880,883>>,
    <<886,887>>, <<891,893>>, <<895,895>>, <<902,902>>, <<904,906>>, <<908,908>>,
    <<910,929>>, <<931,1013>>, <<1015,1153>>, <<1162,1327>>, <<1329,1366>>, <<1376,1416>>,
    <<4256,4293>>, <<4295,4295>>, <<4301,4301>>, <<4304,4346>>, <<4349,4351>>, <<5024,5109>>,
    <<5112,5117>>, <<7296,7304>>, <<7312,7354>>, <<7357,7359>>, <<7424,7467>>, <<7531,7543>>,
    <<7545,7578>>, <<7680,7957>>, <<7960,7965>>, <<7968,8005>>, <<8008,8013>>, <<8016,8023>>,
    <<8025,8025>>, <<8027,8027>>, <<8029,8029>>, <<8031,8061>>, <<8064,8116>>, <<8118,8124>>,
    <<8126,8126>>, <<8130,8132>>, <<8134,8140>>, <<8144,8147>>, <<8150,8155>>, <<8160,8172>>,
    <<8178,8180>>, <<8182,8188>>, <<8450,8450>>, <<8455,8455>>, <<8458,8467>>, <<8469,8469>>,
    <<8473,8477>>, <<8484,8484>>, <<8486,8486>>, <<8488,8488>>, <<8490,8493>>, <<8495,8500>>,
    <<8505,8505>>, <<8508,8511>>, <<8517,8521>>, <<8526,8526>>, <<8544,8575>>, <<8579,8580>>,
    <<9398,9449>>, <<11264,11387>>, <<11390,11492>>, <<11499,11502>>, <<11506,11507>>, <<11520,11557>>,
    <<11559,11559>>, <<11565,11565>>, <<42560,42605>>, <<42624,42651>>, <<42786,42863>>, <<42865,42887>>,
    <<42891,42894>>, <<42896,42954>>, <<42960,42961>>, <<42963,42963>>, <<42965,42969>>, <<42997,42998>>,
    <<43002,43002>>, <<43824,43866>>, <<43872,43880>>, <<43888,43967>>, <<64256,64262>>, <<64275,64279>>,
    <<65313,65338>>, <<65345,65370>>, <<66560,66639>>, <<66736,66771>>, <<66776,66811>>, <<66928,66938>>,
    <<66940,66954>>, <<66956,66962>>, <<66964,66965>>, <<66967,66977>>, <<66979,66993>>, <<66995,67001>>,
    <<67003,67004>>, <<68736,68786>>, <<68800,68850>>, <<71840,71903>>, <<93760,93823>>, <<119808,119892>>,
    <<119894,119964>>, <<119966,119967>>, <<119970,119970>>, <<119973,119974>>, <<119977,119980>>, <<119982,119993>>,
    <<119995,119995>>, <<119997,120003>>, <<120005,120069>>, <<120071,120074>>, <<120077,120084>>, <<120086,120092>>,
    <<120094,120121>>, <<120123,120126>>, <<120128,120132>>, <<120134,120134>>, <<120138,120144>>, <<120146,120485>>,
    <<120488,120512>>, <<120514,120538>>, <<120540,120570>>, <<120572,120596>>, <<120598,120628>>, <<120630,120654>>,
    <<120656,120686>>, <<120688,120712>>, <<120714,120744>>, <<120746,120770>>, <<120772,120779>>, <<122624,122633>>,
    <<122635,122654>>, <<125184,125251>>, <<127280,127305>>, <<127312,127337>>, <<127344,127369>> }

CaseIgnorableRanges ==
  {
    <<39,39>>, <<46,46>>, <<58,58>>, <<94,94>>, <<96,96>>, <<168,168>>,
    <<173,173>>, <<175,175>>, <<180,180>>, <<183,184>>, <<688,879>>, <<884,885>>,
    <<890,890>>, <<900,901>>, <<903,903>>, <<1155,1161>>, <<1369,1369>>, <<1375,1375>>,
    <<1425,1469>>, <<1471,1471>>, <<1473,1474>>, <<1476,1477>>, <<1479,1479>>, <<1524,1524>>,
    <<1536,1541>>, <<1552,1562>>, <<1564,1564>>, <<1600,1600>>, <<1611,1631>>, <<1648,1648>>,
    <<1750,1757>>, <<1759,1768>>, <<1770,1773>>, <<1807,1807>>, <<1809,1809>>, <<1840,1866>>,
    <<1958,1968>>, <<2027,2037>>, <<2042,2042>>, <<2045,2045>>, <<2070,2093>>, <<2137,2139>>,
    <<2184,2184>>, <<2192,2193>>, <<2200,2207>>, <<2249,2306>>, <<2362,2362>>, <<2364,2364>>,
    <<2369,2376>>, <<2381,2381>>, <<2385,2391>>, <<2402,2403>>, <<2417,2417>>, <<2433,2433>>,
    <<2492,2492>>, <<2497,2500>>, <<2509,2509>>, <<2530,2531>>, <<2558,2558>>, <<2561,2562>>,
    <<2620,2620>>, <<2625,2626>>, <<2631,2632>>, <<2635,2637>>, <<2641,2641>>, <<2672,2673>>,
    <<2677,2677>>, <<2689,2690>>, <<2748,2748>>, <<2753,2757>>, <<2759,2760>>, <<2765,2765>>,
    <<2786,2787>>, <<2810,2815>>, <<2817,2817>>, <<2876,2876>>, <<2879,2879>>, <<2881,2884>>,
    <<2893,2893>>, <<2901,2902>>, <<2914,2915>>, <<2946,2946>>, <<3008,3008>>, <<3021,3021>>,
    <<3072,3072>>, <<3076,3076>>, <<3132,3132>>, <<3134,3136>>, <<3142,3144>>, <<3146,3149>>,
    <<3157,3158>>, <<3170,3171>>, <<3201,3201>>, <<3260,3260>>, <<3263,3263>>, <<3270,3270>>,
    <<3276,3277>>, <<3298,3299>>, <<3328,3329>>, <<3387,3388>>, <<3393,3396>>, <<3405,3405>>,
    <<3426,3427>>, <<3457,3457>>, <<3530,3530>>, <<3538,3540>>, <<3542,3542>>, <<3633,3633>>,
    <<3636,3642>>, <<3654,3662>>, <<3761,3761>>, <<3764,3772>>, <<3782,3782>>, <<3784,3789>>,
    <<3864,3865>>, <<3893,3893>>, <<3895,3895>>, <<3897,3897>>, <<3953,3966>>, <<3968,3972>>,
    <<3974,3975>>, <<3981,3991>>, <<3993,4028>>, <<4038,4038>>, <<4141,4144>>, <<4146,4151>>,
    <<4153,4154>>, <<4157,4158>>, <<4184,4185>>, <<4190,4192>>, <<4209,4212>>, <<4226,4226>>,
    <<4229,4230>>, <<4237,4237>>, <<4253,4253>>, <<4348,4348>>, <<4957,4959>>, <<5906,5908>>,
    <<5938,5939>>, <<5970,5971>>, <<6002,6003>>, <<6068,6069>>, <<6071,6077>>, <<6086,6086>>,
    <<6089,6099>>, <<6103,6103>>, <<6109,6109>>, <<6155,6159>>, <<6211,6211>>, <<6277,6278>>,
    <<6313,6313>>, <<6432,6434>>, <<6439,6440>>, <<6450,6450>>, <<6457,6459>>, <<6679,6680>>,
    <<6683,6683>>, <<6742,6742>>, <<6744,6750>>, <<6752,6752>>, <<6754,6754>>, <<6757,6764>>,
    <<6771,6780>>, <<6783,6783>>, <<6823,6823>>, <<6832,6862>>, <<6912,6915>>, <<6964,6964>>,
    <<6966,6970>>, <<6972,6972>>, <<6978,6978>>, <<7019,7027>>, <<7040,7041>>, <<7074,7077>>,
    <<7080,7081>>, <<7083,7085>>, <<7142,7142>>, <<7144,7145>>, <<7149,7149>>, <<7151,7153>>,
    <<7212,7219>>, <<7222,7223>>, <<7288,7293>>, <<7376,7378>>, <<7380,7392>>, <<7394,7400>>,
    <<7405,7405>>, <<7412,7412>>, <<7416,7417>>, <<7468,7530>>, <<7544,7544>>, <<7579,7679>>,
    <<8125,8125>>, <<8127,8129>>, <<8141,8143>>, <<8157,8159>>, <<8173,8175>>, <<8189,8190>>,
    <<8203,8207>>, <<8216,8217>>, <<8228,8228>>, <<8231,8231>>, <<8234,8238>>, <<8288,8292>>,
    <<8294,8303>>, <<8305,8305>>, <<8319,8319>>, <<8336,8348>>, <<8400,8432>>, <<11388,11389>>,
    <<11503,11505>>, <<11631,11631>>, <<11647,11647>>, <<11744,11775>>, <<11823,11823>>, <<12293,12293>>,
    <<12330,12333>>, <<12337,12341>>, <<12347,12347>>, <<12441,12446>>, <<12540,12542>>, <<40981,40981>>,
    <<42232,42237>>, <<42508,42508>>, <<42607,42610>>, <<42612,42621>>, <<42623,42623>>, <<42652,42655>>,
    <<42736,42737>>, <<42752,42785>>, <<42864,42864>>, <<42888,42890>>, <<42994,42996>>, <<43000,43001>>,
    <<43010,43010>>, <<43014,43014>>, <<43019,43019>>, <<43045,43046>>, <<43052,43052>>, <<43204,43205>>,
    <<43232,43249>>, <<43263,43263>>, <<43302,43309>>, <<43335,43345>>, <<43392,43394>>, <<43443,43443>>,
    <<43446,43449>>, <<43452,43453>>, <<43471,43471>>, <<43493,43494>>, <<43561,43566>>, <<43569,43570>>,
    <<43573,43574>>, <<43587,43587>>, <<43596,43596>>, <<43632,43632>>, <<43644,43644>>, <<43696,43696>>,
    <<43698,43700>>, <<43703,43704>>, <<43710,43711>>, <<43713,43713>>, <<43741,43741>>, <<43756,43757>>,
    <<43763,43764>>, <<43766,43766>>, <<43867,43871>>, <<43881,43883>>, <<44005,44005>>, <<44008,44008>>,
    <<44013,44013>>, <<64286,64286>>, <<64434,64450>>, <<65024,65039>>, <<65043,65043>>, <<65056,65071>>,
    <<65106,65106>>, <<65109,65109>>, <<65279,65279>>, <<65287,65287>>, <<65294,65294>>, <<65306,65306>>,
    <<65342,65342>>, <<65344,65344>>, <<65392,65392>>, <<65438,65439>>, <<65507,65507>>, <<65529,65531>>,
    <<66045,66045>>, <<66272,66272>>, <<66422,66426>>, <<67456,67461>>, <<67463,67504>>, <<67506,67514>>,
    <<68097,68099>>, <<68101,68102>>, <<68108,68111>>, <<68152,68154>>, <<68159,68159>>, <<68325,68326>>,
    <<68900,68903>>, <<69291,69292>>, <<69446,69456>>, <<69506,69509>>, <<69633,69633>>, <<69688,69702>>,
    <<69744,69744>>, <<69747,69748>>, <<69759,69761>>, <<69811,69814>>, <<69817,69818>>, <<69821,69821>>,
    <<69826,69826>>, <<69837,69837>>, <<69888,69890>>, <<69927,69931>>, <<69933,69940>>, <<70003,70003>>,
    <<70016,70017>>, <<70070,70078>>, <<70089,70092>>, <<70095,70095>>, <<70191,70193>>, <<70196,70196>>,
    <<70198,70199>>, <<70206,70206>>, <<70367,70367>>, <<70371,70378>>, <<70400,70401>>, <<70459,70460>>,
    <<70464,70464>>, <<70502,70508>>, <<70512,70516>>, <<70712,70719>>, <<70722,70724>>, <<70726,70726>>,
    <<70750,70750>>, <<70835,70840>>, <<70842,70842>>, <<70847,70848>>, <<70850,70851>>, <<71090,71093>>,
    <<71100,71101>>, <<71103,71104>>, <<71132,71133>>, <<71219,71226>>, <<71229,71229>>, <<71231,71232>>,
    <<71339,71339>>, <<71341,71341>>, <<71344,71349>>, <<71351,71351>>, <<71453,71455>>, <<71458,71461>>,
    <<71463,71467>>, <<71727,71735>>, <<71737,71738>>, <<71995,71996>>, <<71998,71998>>, <<72003,72003>>,
    <<72148,72151>>, <<72154,72155>>, <<72160,72160>>, <<72193,72202>>, <<72243,72248>>, <<72251,72254>>,
    <<72263,72263>>, <<72273,72278>>, <<72281,72283>>, <<72330,72342>>, <<72344,72345>>, <<72752,72758>>,
    <<72760,72765>>, <<72767,72767>>, <<72850,72871>>, <<72874,72880>>, <<72882,72883>>, <<72885,72886>>,
    <<73009,73014>>, <<73018,73018>>, <<73020,73021>>, <<73023,73029>>, <<73031,73031>>, <<73104,73105>>,
    <<73109,73109>>, <<73111,73111>>, <<73459,73460>>, <<78896,78904>>, <<92912,92916>>, <<92976,92982>>,
    <<92992,92995>>, <<94031,94031>>, <<94095,94111>>, <<94176,94177>>, <<94179,94180>>, <<110576,110579>>,
    <<110581,110587>>, <<110589,110590>>, <<113821,113822>>, <<113824,113827>>, <<118528,118573>>, <<118576,118598>>,
    <<119143,119145>>, <<119155,119170>>, <<119173,119179>>, <<119210,119213>>, <<119362,119364>>, <<121344,121398>>,
    <<121403,121452>>, <<121461,121461>>, <<121476,121476>>, <<121499,121503>>, <<121505,121519>>, <<122880,122886>>,
    <<122888,122904>>, <<122907,122913>>, <<122915,122916>>, <<122918,122922>>, <<123184,123197>>, <<123566,123566>>,
    <<123628,123631>>, <<125136,125142>>, <<125252,125259>>, <<127995,127999>>, <<917505,917505>>, <<917536,917631>>,
    <<917760,917999>> }

\* The code points for which str.isspace() holds: the ones str.strip() removes.
Whitespace ==
  {
    9, 10, 11, 12, 13, 28, 29, 30, 31, 32, 133, 160,
    5760, 8192, 8193, 8194, 8195, 8196, 8197, 8198, 8199, 8200, 8201, 8202,
    8232, 8233, 8239, 8287, 12288 }

\* The zero of every run of ten Unicode decimal digits (category Nd).
DigitZeros ==
  {
    48, 1632, 1776, 1984, 2406, 2534, 2662, 2790, 2918, 3046,
    3174, 3302, 3430, 3558, 3664, 3792, 3872, 4160, 4240, 6112,
    6160, 6470, 6608, 6784, 6800, 6992, 7088, 7232, 7248, 42528,
    43216, 43264, 43472, 43504, 43600, 44016, 65296, 66720, 68912, 69734,
    69872, 69942, 70096, 70384, 70736, 70864, 71248, 71360, 71472, 71904,
    72016, 72784, 73040, 73120, 92768, 92864, 93008, 120782, 120792, 120802,
    120812, 120822, 123200, 123632, 125264, 130032 }

\* The upper case of one code point (one or several code points).
UpperChar(c) ==
  LET rows == { r \in UpperRanges : InRow(c, r) }
      many == { m \in UpperMulti : m[1] = c }
  IN IF c < 128 THEN (IF 97 <= c /\ c <= 122 THEN << c - 32 >> ELSE << c >>)
     ELSE IF rows # {} THEN << c + (CHOOSE r \in rows : TRUE)[4] >>
     ELSE IF many # {} THEN (CHOOSE m \in many : TRUE)[2]
     ELSE << c >>

\* The lower case of one code point other than the capital sigma.
LowerChar(c) ==
  LET rows == { r \in LowerRanges : InRow(c, r) }
      many == { m \in LowerMulti : m[1] = c }
  IN IF c < 128 THEN (IF 65 <= c /\ c <= 90 THEN << c + 32 >> ELSE << c >>)
     ELSE IF rows # {} THEN << c + (CHOOSE r \in rows : TRUE)[4] >>
     ELSE IF many # {} THEN (CHOOSE m \in many : TRUE)[2]
     ELSE << c >>

Cased(c) == \E r \in CasedRanges : r[1] <= c /\ c <= r[2]
CaseIgnorable(c) == \E r \in CaseIgnorableRanges : r[1] <= c /\ c <= r[2]

\* A capital sigma at position i ends a word: a cased letter comes before it
\* and none after it, case-ignorable code points skipped on both sides.
FinalSigma(s, i) ==
  LET before == { j \in 1..(i - 1) : ~CaseIgnorable(s[j]) }
      after == { j \in (i + 1)..Len(s) : ~CaseIgnorable(s[j]) }
  IN /\ before # {}
     /\ Cased(s[Max(before)])
     /\ IF after = {} THEN TRUE ELSE ~Cased(s[Min(after)])

\* str.upper() and str.lower(): the Unicode case mappings; the result can be
\* longer than the string.
RECURSIVE Upper(_)
Upper(s) == IF s = << >> THEN << >> ELSE UpperChar(Head(s)) \o Upper(Tail(s))

RECURSIVE LowerFrom(_, _)
LowerFrom(s, i) ==
  IF i > Len(s) THEN << >>
  ELSE (IF s[i] = 931 THEN << (IF FinalSigma(s, i) THEN 962 ELSE 963) >>
        ELSE LowerChar(s[i])) \o LowerFrom(s, i + 1)

Lower(s) == LowerFrom(s, 1)

RECURSIVE LStrip(_, _)
LStrip(s, W) == IF s # << >> /\ Head(s) \in W THEN LStrip(Tail(s), W) ELSE s

RECURSIVE RStrip(_, _)
RStrip(s, W) ==
  IF s # << >> /\ s[Len(s)] \in W THEN RStrip(SubSeq(s, 1, Len(s) - 1), W) ELSE s

Strip(s) == RStrip(LStrip(s, Whitespace), Whitespace)

\* ---------------------------------------------------------------- float

NaN == [k |-> "nan", neg |-> FALSE, ds |-> << >>, pt |-> 0]
Inf(neg) == [k |-> "inf", neg |-> neg, ds |-> << >>, pt |-> 0]
FloatError == [k |-> "err", neg |-> FALSE, ds |-> << >>, pt |-> 0]
Num(neg, ds, pt) == [k |-> "num", neg |-> neg, ds |-> ds, pt |-> pt]

\* A decimal 0.d1d2...dn * 10^pt, digits ds = << d1, ..., dn >>.
Dec(ds, pt) == [ds |-> ds, pt |-> pt]

\* The decimal without its leading and trailing zeros (no digit: zero).
Norm(ds, pt) ==
  LET nz == { i \in 1..Len(ds) : ds[i] # 0 }
  IN IF nz = {} THEN Dec(<< >>, 0)
     ELSE Dec(SubSeq(ds, Min(nz), Max(nz)), pt - (Min(nz) - 1))

Digit(ds, i) == IF i <= Len(ds) THEN ds[i] ELSE 0

\* a < b for two positive decimals without leading zeros.
Less(a, b) ==
  IF a.pt # b.pt THEN a.pt < b.pt
  ELSE LET n == IF Len(a.ds) > Len(b.ds) THEN Len(a.ds) ELSE Len(b.ds)
           diff == { i \in 1..n : Digit(a.ds, i) # Digit(b.ds, i) }
       IN IF diff = {} THEN FALSE
          ELSE Digit(a.ds, Min(diff)) < Digit(b.ds, Min(diff))

\* Twice and half a positive decimal, digit by digit: the carry into a digit
\* depends on the next digit only, and so does the remainder.
Double(d) ==
  LET n == Len(d.ds)
      body == [ i \in 1..n |->
                ((2 * d.ds[i]) % 10) + (IF i < n THEN (IF d.ds[i + 1] >= 5 THEN 1 ELSE 0) ELSE 0) ]
      kept == IF body[n] = 0 THEN SubSeq(body, 1, n - 1) ELSE body
  IN IF d.ds[1] >= 5 THEN Dec(<< 1 >> \o kept, d.pt + 1) ELSE Dec(kept, d.pt)

Halve(d) ==
  LET n == Len(d.ds)
      body == [ i \in 1..(n + 1) |->
                (IF i <= n THEN (d.ds[i] \div 2) ELSE 0)
                + (IF i > 1 THEN 5 * (d.ds[i - 1] % 2) ELSE 0) ]
      kept == IF body[n + 1] = 0 THEN SubSeq(body, 1, n) ELSE body
  IN IF body[1] = 0 THEN Dec(Tail(kept), d.pt - 1) ELSE Dec(kept, d.pt)

\* d * 2^k and d / 2^k for k >= 0 (zero stays zero), and d * 2^k for any
\* integer k.
RECURSIVE Times2(_, _)
Times2(d, k) ==
  IF d.ds = << >> \/ k = 0 THEN d
  ELSE IF k = 1 THEN Double(d)
  ELSE Times2(Times2(d, k \div 2), k - (k \div 2))

RECURSIVE Over2(_, _)
Over2(d, k) ==
  IF d.ds = << >> \/ k = 0 THEN d
  ELSE IF k = 1 THEN Halve(d)
  ELSE Over2(Over2(d, k \div 2), k - (k \div 2))

Scale2(d, k) == IF k >= 0 THEN Times2(d, k) ELSE Over2(d, 0 - k)

\* An integer given by its digits, and the integer and fraction digits of a
\* decimal.
FromInt(ds) == Norm(ds, Len(ds))
IntPart(d) == IF d.pt <= 0 THEN << >> ELSE [ i \in 1..d.pt |-> Digit(d.ds, i) ]
FracPart(d) ==
  IF d.pt <= 0 THEN [ i \in 1..(0 - d.pt) |-> 0 ] \o d.ds
  ELSE IF d.pt >= Len(d.ds) THEN << >>
  ELSE SubSeq(d.ds, d.pt + 1, Len(d.ds))

\* The digits fr after a point against one half: -1, 0 or 1.
HalfCmp(fr) ==
  IF fr = << >> THEN -1
  ELSE IF fr[1] < 5 THEN -1
  ELSE IF fr[1] > 5 THEN 1
  ELSE IF \E i \in 2..Len(fr) : fr[i] # 0 THEN 1
  ELSE 0

\* The integer ds plus one and minus one (ds > 0), as digits: the digits
\* after the last one that is not 9 (not 0) turn over.
Inc(ds) ==
  LET low == { i \in 1..Len(ds) : ds[i] # 9 }
      k == Max(low)
  IN IF low = {} THEN << 1 >> \o [ i \in 1..Len(ds) |-> 0 ]
     ELSE [ i \in 1..Len(ds) |-> IF i < k THEN ds[i] ELSE IF i = k THEN ds[i] + 1 ELSE 0 ]

Decr(ds) ==
  LET k == Max({ i \in 1..Len(ds) : ds[i] # 0 })
  IN [ i \in 1..Len(ds) |-> IF i < k THEN ds[i] ELSE IF i = k THEN ds[i] - 1 ELSE 9 ]

\* The format of an IEEE 754 double: a finite double is m * 2^q with
\* MinQ <= q <= MaxQ and m < 2^53, m >= 2^52 unless q = MinQ.
MinQ == -1074
MaxQ == 971
P52 == << 4,5,0,3,5,9,9,6,2,7,3,7,0,4,9,6 >>
P53 == << 9,0,0,7,1,9,9,2,5,4,7,4,0,9,9,2 >>

\* T = D / 2^q brought into [2^52, 2^53), or below 2^52 with q = MinQ.
RECURSIVE Binade(_, _)
Binade(T, q) ==
  IF ~Less(T, FromInt(P53)) THEN Binade(Halve(T), q + 1)
  ELSE IF Less(T, FromInt(P52)) /\ q > MinQ THEN Binade(Double(T), q - 1)
  ELSE [t |-> T, q |-> q]

\* The double of mantissa m0 (at most 2^53) and exponent q: a mantissa of
\* 2^53 is 2^52 with the next exponent; above MaxQ the double is infinite.
Finite(m0, q) ==
  IF (IF m0 = P53 THEN q + 1 ELSE q) > MaxQ THEN [k |-> "inf", m |-> << >>, q |-> 0]
  ELSE IF m0 = << >> THEN [k |-> "zero", m |-> << >>, q |-> 0]
  ELSE IF m0 = P53 THEN [k |-> "fin", m |-> P52, q |-> q + 1]
  ELSE [k |-> "fin", m |-> m0, q |-> q]

\* The integer part of b.t, rounded to the nearest integer by the comparison
\* of its fraction with one half, ties to the even one.
Nearest(b) ==
  IF \/ HalfCmp(FracPart(b.t)) > 0
     \/ /\ HalfCmp(FracPart(b.t)) = 0
        /\ IntPart(b.t) # << >>
        /\ IntPart(b.t)[Len(IntPart(b.t))] % 2 = 1
  THEN Finite(Inc(IntPart(b.t)), b.q)
  ELSE Finite(IntPart(b.t), b.q)

\* The exponent to start from for a decimal 0.ds * 10^pt: about log2 of it
\* less 53, and MinQ at least.
FirstQ(pt) ==
  IF ((pt * 33219) \div 10000) - 53 < MinQ THEN MinQ ELSE ((pt * 33219) \div 10000) - 53

\* The double nearest to the positive decimal D, ties to the even mantissa:
\* [k |-> "fin", m, q] (m as digits), "inf" or "zero".
ToDouble(D) == Nearest(Binade(Scale2(D, 0 - FirstQ(D.pt)), FirstQ(D.pt)))

\* c lies between lo and hi, the two included when closed.
Inside(c, lo, hi, closed) ==
  /\ Less(lo, c) \/ (closed /\ c = lo)
  /\ Less(c, hi) \/ (closed /\ c = hi)

\* The first of x cut to n, n + 1, ... digits, or of these plus one unit in
\* the last place, to lie between lo and hi; of the two, the nearer to x.
RECURSIVE ShortestFrom(_, _, _, _, _)
RECURSIVE Nearer(_, _, _, _, _, _, _, _, _, _)

ShortestFrom(x, lo, hi, closed, n) ==
  IF Len(x.ds) <= n THEN x
  ELSE Nearer(x, lo, hi, closed, n,
              Norm(SubSeq(x.ds, 1, n), x.pt),
              Norm(Inc(SubSeq(x.ds, 1, n)), x.pt + (Len(Inc(SubSeq(x.ds, 1, n))) - n)),
              Inside(Norm(SubSeq(x.ds, 1, n), x.pt), lo, hi, closed),
              Inside(Norm(Inc(SubSeq(x.ds, 1, n)), x.pt + (Len(Inc(SubSeq(x.ds, 1, n))) - n)),
                     lo, hi, closed),
              HalfCmp(SubSeq(x.ds, n + 1, Len(x.ds))))

\* fl, ce: x cut down and up to n digits; inFl, inCe: each lies between lo and
\* hi; h: the digits of x cut off against one half.
Nearer(x, lo, hi, closed, n, fl, ce, inFl, inCe, h) ==
  IF inFl /\ inCe THEN (IF h > 0 \/ (h = 0 /\ x.ds[n] % 2 = 1) THEN ce ELSE fl)
  ELSE IF inFl THEN fl
  ELSE IF inCe THEN ce
  ELSE ShortestFrom(x, lo, hi, closed, n + 1)

\* The decimals that round to the double m * 2^q lie between the midpoints to
\* its two neighbours, the midpoints included when m is even: two is 2m and
\* four is 4m, the neighbour below 2^52 * 2^q is half as far.
Midpoints(m, q, M, two, four) ==
  ShortestFrom(Scale2(M, q),
               IF m = P52 /\ q > MinQ THEN Scale2(FromInt(Decr(four)), q - 2)
               ELSE Scale2(FromInt(Decr(two)), q - 1),
               Scale2(FromInt(Inc(two)), q - 1),
               m[Len(m)] % 2 = 0, 1)

\* The shortest decimal that rounds to the double m * 2^q, the nearest to it
\* when there are several (the digits repr() prints).
Shortest(m, q) ==
  Midpoints(m, q, FromInt(m), IntPart(Double(FromInt(m))),
            IntPart(Double(Double(FromInt(m)))))

\* The float of the decimal (-1)^neg * 0.ds * 10^pt.  A decimal of 310 digits
\* or more before the point is above every double, one with 323 zeros or more
\* after the point is below half the least one; a decimal of at most 15
\* digits in the range of the normal doubles is the shortest decimal of its
\* own double.
FromDouble(neg, s) == Num(neg, s.ds, s.pt)

Rounded(neg, r) ==
  IF r.k = "inf" THEN Inf(neg)
  ELSE IF r.k = "zero" THEN Num(neg, << >>, 0)
  ELSE FromDouble(neg, Shortest(r.m, r.q))

RoundNorm(neg, D) ==
  IF D.ds = << >> THEN Num(neg, << >>, 0)
  ELSE IF D.pt >= 310 THEN Inf(neg)
  ELSE IF D.pt <= -324 THEN Num(neg, << >>, 0)
  ELSE IF Len(D.ds) <= 15 /\ D.pt >= -306 /\ D.pt <= 308 THEN Num(neg, D.ds, D.pt)
  ELSE Rounded(neg, ToDouble(D))

Round(neg, ds, pt) == RoundNorm(neg, Norm(ds, pt))

\* The decimal value of a Unicode decimal digit (-1: not a digit).
Decimal(c) ==
  LET zs == { z \in DigitZeros : z <= c /\ c <= z + 9 }
  IN IF c < 128 THEN (IF 48 <= c /\ c <= 57 THEN c - 48 ELSE -1)
     ELSE IF zs = {} THEN -1
     ELSE c - (CHOOSE z \in zs : TRUE)

\* A decimal digit of Unicode: what float() and \d of re accept.
IsDigit(c) == Decimal(c) >= 0

\* float() first replaces every non-ASCII space by ' ', every non-ASCII
\* decimal digit by its ASCII digit and any other non-ASCII code point by '?'.
ToAscii(s) ==
  [ i \in 1..Len(s) |->
      IF s[i] < 128 THEN s[i]
      ELSE IF s[i] \in Whitespace THEN 32
      ELSE IF IsDigit(s[i]) THEN 48 + Decimal(s[i])
      ELSE 63 ]

\* The ASCII spaces float() strips (isspace of C), and ASCII lower case.
AsciiSpace == { 9, 10, 11, 12, 13, 32 }

LowerAscii(s) == [ i \in 1..Len(s) |-> IF 65 <= s[i] /\ s[i] <= 90 THEN s[i] + 32 ELSE s[i] ]

\* An underscore is allowed between two digits only.
UnderscoresOk(s) ==
  \A i \in Positions(95, s) :
    IF i = 1 \/ i = Len(s) THEN FALSE
    ELSE s[i - 1] \in 48..57 /\ s[i + 1] \in 48..57

RECURSIVE RemoveUnderscores(_)
RemoveUnderscores(s) ==
  IF s = << >> THEN << >>
  ELSE IF Head(s) = 95 THEN RemoveUnderscores(Tail(s))
  ELSE << Head(s) >> \o RemoveUnderscores(Tail(s))

AllDigits(s) == \A i \in 1..Len(s) : s[i] \in 48..57
DigitsOf(s) == [ i \in 1..Len(s) |-> s[i] - 48 ]

\* The mantissa of a literal: digits [. digits], with a digit on one side at least.
MantissaOk(m) ==
  LET dots == Positions(46, m)
  IN IF dots = {} THEN m # << >> /\ AllDigits(m)
     ELSE /\ Cardinality(dots) = 1
          /\ Len(m) > 1
          /\ AllDigits(SubSeq(m, 1, Min(dots) - 1))
          /\ AllDigits(SubSeq(m, Min(dots) + 1, Len(m)))

\* The exponent of a literal: [+-] digits.
ExponentOk(x) ==
  IF x = << >> THEN FALSE
  ELSE LET u == IF x[1] \in { 43, 45 } THEN Tail(x) ELSE x
       IN u # << >> /\ AllDigits(u)

\* The integer of the digits s, or cap when it is cap or more.
RECURSIVE ParseNat(_, _)
ParseNat(s, cap) ==
  IF s = << >> THEN 0
  ELSE LET n == 10 * ParseNat(SubSeq(s, 1, Len(s) - 1), cap) + (s[Len(s)] - 48)
       IN IF n > cap THEN cap ELSE n

\* The exponent, cut at cap (a larger one overflows or underflows all the same).
Exponent(x, cap) ==
  IF x[1] = 45 THEN 0 - ParseNat(Tail(x), cap)
  ELSE IF x[1] = 43 THEN ParseNat(Tail(x), cap)
  ELSE ParseNat(x, cap)

\* The float of a mantissa m with the point at p (past the end: no point)
\* and the decimal exponent e.
Mantissa(neg, m, p, e) ==
  Round(neg, DigitsOf(SubSeq(m, 1, p - 1) \o SubSeq(m, p + 1, Len(m))), (p - 1) + e)

\* A literal of mantissa m and exponent x (none: exponent 0).
Number(neg, m, x, exp, cap) ==
  IF MantissaOk(m) /\ (exp => ExponentOk(x))
  THEN Mantissa(neg, m, Min(Positions(46, m) \cup { Len(m) + 1 }),
                IF exp THEN Exponent(x, cap) ELSE 0)
  ELSE FloatError

\* nan, inf, infinity or a decimal literal, cut at the first 'e'.
Literal(neg, body, cap) ==
  IF body = Str(<< "n","a","n" >>) THEN NaN
  ELSE IF body \in { Str(<< "i","n","f" >>), Str(<< "i","n","f","i","n","i","t","y" >>) }
    THEN Inf(neg)
  ELSE IF Positions(101, body) = {} THEN Number(neg, body, << >>, FALSE, cap)
  ELSE Number(neg, SubSeq(body, 1, Min(Positions(101, body)) - 1),
              SubSeq(body, Min(Positions(101, body)) + 1, Len(body)), TRUE, cap)

\* An optional sign, then the literal.
Signed(u, cap) ==
  Literal(u # << >> /\ u[1] = 45,
          IF u # << >> /\ u[1] \in { 43, 45 } THEN Tail(u) ELSE u, cap)

\* Underscores are allowed between digits only, and dropped.
Stripped(t, cap) ==
  IF ~UnderscoresOk(t) THEN FloatError ELSE Signed(LowerAscii(RemoveUnderscores(t)), cap)

\* float(s) of Python: spaces stripped, underscores between digits dropped,
\* a sign, then nan, inf, infinity (any case) or a decimal literal with an
\* optional exponent, rounded to the nearest double.
float(s) == Stripped(RStrip(LStrip(ToAscii(s), AsciiSpace), AsciiSpace), Len(s) + 400)

RECURSIVE NatToDigits(_)
NatToDigits(n) ==
  IF n < 10 THEN << 48 + n >> ELSE Append(NatToDigits(n \div 10), 48 + (n % 10))

\* str(x) of a Python float (repr): the shortest digits, in fixed notation
\* when 1e-4 <= |x| < 1e16 and in exponent notation otherwise.
str(v) ==
  LET sign == IF v.neg THEN << 45 >> ELSE << >>
      ds == [ i \in 1..Len(v.ds) |-> 48 + v.ds[i] ]
      decpt == v.pt
      e == decpt - 1
      ea == IF e < 0 THEN 0 - e ELSE e
      ed == IF ea < 10 THEN << 48 >> \o NatToDigits(ea) ELSE NatToDigits(ea)
  IN IF v.k = "nan" THEN Str(<< "n","a","n" >>)
     ELSE IF v.k = "inf" THEN sign \o Str(<< "i","n","f" >>)
     ELSE IF v.ds = << >> THEN sign \o Str(<< "0", ".", "0" >>)
     ELSE IF decpt > 16 \/ decpt < -3
       THEN sign \o << ds[1] >>
            \o (IF Len(ds) > 1 THEN << 46 >> \o Tail(ds) ELSE << >>)
            \o << 101 >> \o (IF e < 0 THEN << 45 >> ELSE << 43 >>) \o ed
     ELSE IF decpt <= 0 THEN sign \o Str(<< "0", "." >>) \o [ i \in 1..(0 - decpt) |-> 48 ] \o ds
     ELSE IF decpt >= Len(ds) THEN sign \o ds \o [ i \in 1..(decpt - Len(ds)) |-> 48 ] \o Str(<< ".", "0" >>)
     ELSE sign \o SubSeq(ds, 1, decpt) \o << 46 >> \o SubSeq(ds, decpt + 1, Len(ds))

\* x <= 0, x < 0.001 and bool(x) of a Python float (every comparison with a
\* NaN is false, and a NaN is truthy).
LeZero(v) ==
  \/ v.k = "num" /\ (v.ds = << >> \/ v.neg)
  \/ v.k = "inf" /\ v.neg

LtMinQty(v) ==
  \/ v.k = "num" /\ (IF v.neg THEN TRUE
                     ELSE IF v.ds = << >> THEN TRUE
                     ELSE Less(Dec(v.ds, v.pt), Dec(<< 1 >>, -2)))
  \/ v.k = "inf" /\ v.neg

Truthy(v) == ~(v.k = "num" /\ v.ds = << >>)


\* ----------------------------------------------------- bot/validators.py

MinSymbolLen == 5
MaxSymbolLen == 12

\* The class [A-Z0-9] of the pattern (no flag: ASCII letters and digits only).
SymbolChar(c) == (65 <= c /\ c <= 90) \/ (48 <= c /\ c <= 57)

\* The pattern with the quantifier {5,}: no upper bound on the length.
re_match_unbounded(s) ==
  \E n \in MinSymbolLen..Len(s) :
    /\ \A i \in 1..n : SymbolChar(s[i])
    /\ Len(s) = n

\* re.match(r'^[A-Z0-9]{5,12}$', s): between 5 and 12 characters of the
\* class from the start, then the end of the string ($ also matches just
\* before a newline that ends the string).
re_match(s) ==
  \E n \in MinSymbolLen..MaxSymbolLen :
    /\ n <= Len(s)
    /\ \A i \in 1..n : SymbolChar(s[i])
    /\ \/ Len(s) = n
       \/ Len(s) = n + 1 /\ s[n + 1] = 10

\* What a validator does: it returns val, with or without the printed
\* warning, or raises the ValueError named by err.
Ok(v) == [ok |-> TRUE, val |-> v, err |-> "none", warn |-> FALSE]
Warned(v, w) == [ok |-> TRUE, val |-> v, err |-> "none", warn |-> w]
Raise(kind) == [ok |-> FALSE, val |-> None, err |-> kind, warn |-> FALSE]

validate_symbol(symbol) ==
  LET s == Strip(Upper(symbol))
  IN IF ~re_match(s) THEN Raise("symbol") ELSE Ok(s)

BUY == Str(<< "B","U","Y" >>)
SELL == Str(<< "S","E","L","L" >>)

validate_side(side) ==
  LET s == Strip(Upper(side))
  IN IF s \notin { BUY, SELL } THEN Raise("side") ELSE Ok(s)

MARKET == Str(<< "M","A","R","K","E","T" >>)
LIMIT == Str(<< "L","I","M","I","T" >>)

validate_order_type(order_type) ==
  LET s == Strip(Upper(order_type))
  IN IF s \notin { MARKET, LIMIT } THEN Raise("order_type") ELSE Ok(s)

\* The checks of validate_quantity on the parsed number qty (or on the
\* ValueError of float()): both that ValueError and the one raised for
\* qty <= 0 are caught by the except clause and raised again as "Invalid
\* quantity"; a quantity below 0.001 prints a warning.
CheckedQuantity(qty) ==
  IF qty.k = "err" THEN Raise("quantity")
  ELSE IF LeZero(qty) THEN Raise("quantity")
  ELSE Warned(qty, LtMinQty(qty))

validate_quantity(quantity) == CheckedQuantity(float(quantity))

\* The checks of validate_price on the parsed number p.
CheckedPrice(p) ==
  IF p.k = "err" THEN Raise("price")
  ELSE IF LeZero(p) THEN Raise("price")
  ELSE Ok(p)

validate_price(price) == CheckedPrice(float(price))

\* --------------------------------------------------------- bot/client.py

GTC == Str(<< "G","T","C" >>)

\* The keyword arguments of one futures_create_order call.
Request(symbol, side, type, quantity, price, tif) ==
  [symbol |-> symbol, side |-> side, type |-> type, quantity |-> quantity,
   price |-> price, timeInForce |-> tif]

\* What happens in one gateway method: the create-order call returns an order
\* record ("ok"), raises a BinanceAPIException ("api_error") or any other
\* Exception ("error"), or a KeyboardInterrupt arrives: at the logger.info
\* before the call ("interrupt_before") or in the call or after it
\* ("interrupt").
Outcomes == { "ok", "api_error", "error", "interrupt_before", "interrupt" }

\* The order record the exchange returns for a request.
OrderRecord(req) == [orderId |-> 1, status |-> "NEW", type |-> req.type]

\* One gateway method for the requests reqs it is to send: the create-order
\* calls it issued (none when the interrupt came first), the order record it
\* returned (if any) and the exception it raised: a BinanceAPIException and
\* any other Exception are wrapped in one Exception each; a KeyboardInterrupt
\* is no Exception and passes through.
Gateway(reqs, outcome, what) ==
  [calls |-> IF outcome = "interrupt_before" THEN << >> ELSE reqs,
   response |-> IF outcome = "ok" THEN Some(OrderRecord(reqs[1])) ELSE None,
   raised |-> CASE outcome = "ok" -> "none"
                [] outcome = "api_error" -> "Binance API Error"
                [] outcome = "error" -> what
                [] OTHER -> "KeyboardInterrupt"]

\* A gateway that sends the request a second time when the first call fails.
place_market_order_retry(symbol, side, quantity, outcome) ==
  LET req == Request(symbol, Upper(side), MARKET, quantity, None, None)
  IN Gateway(IF outcome \in {"api_error", "error"} THEN << req, req >> ELSE << req >>,
             outcome, "Unexpected error placing market order")

place_market_order(symbol, side, quantity, outcome) ==
  Gateway(<< Request(symbol, Upper(side), MARKET, quantity, None, None) >>,
          outcome, "Unexpected error placing market order")

place_limit_order(symbol, side, quantity, price, outcome) ==
  Gateway(<< Request(symbol, Upper(side), LIMIT, quantity, Some(price), Some(GTC)) >>,
          outcome, "Unexpected error placing limit order")

\* ----------------------------------------------------------------- cli.py

\* The option strings of the parser: -h and --help (added by argparse) and
\* --price; the action an option string selects.
HelpShort == Str(<< "-","h" >>)
PriceOption == Str(<< "-","-","p","r","i","c","e" >>)
OptionStrings == { HelpShort, Str(<< "-","-","h","e","l","p" >>), PriceOption }
Action(o) == IF o = PriceOption THEN "price" ELSE "help"

\* The argument '--': the first one ends the options.
DoubleDash == Str(<< "-","-" >>)

\* How argparse reads one argument string: as a positional argument ('A'),
\* as an option ('O': the action, the option string and the argument given
\* with it, if any) or as an ambiguous abbreviation.  Marker is the first '--'.
Positional == [kind |-> "A", action |-> "none", option |-> << >>, explicit |-> None]
Optional(action, option, explicit) ==
  [kind |-> "O", action |-> action, option |-> option, explicit |-> explicit]
Ambiguous == [kind |-> "ambiguous", action |-> "none", option |-> << >>, explicit |-> None]
Marker == [kind |-> "-", action |-> "none", option |-> << >>, explicit |-> None]

\* The options an argument string abbreviates: for '--x[=v]' the option
\* strings that start with '--x', for '-hv' the option '-h' with argument v.
get_option_tuples(arg) ==
  IF arg[2] = 45
  THEN LET eq == Positions(61, arg)
           prefix == IF eq = {} THEN arg ELSE SubSeq(arg, 1, Min(eq) - 1)
           explicit == IF eq = {} THEN None ELSE Some(SubSeq(arg, Min(eq) + 1, Len(arg)))
       IN { Optional(Action(o), o, explicit) :
              o \in { x \in OptionStrings : StartsWith(x, prefix) } }
  ELSE { Optional(Action(o), o, Some(SubSeq(arg, 3, Len(arg)))) :
           o \in { x \in OptionStrings : x = SubSeq(arg, 1, 2) } }
       \cup { Optional(Action(o), o, None) :
                o \in { x \in OptionStrings : x # SubSeq(arg, 1, 2) /\ StartsWith(x, arg) } }

\* The whole of t is -\d+ or -\d*\.\d+ (\d: a Unicode decimal digit).
FullNegative(t) ==
  /\ Len(t) > 1
  /\ t[1] = 45
  /\ LET r == Tail(t)
         dots == Positions(46, r)
     IN \/ \A i \in 1..Len(r) : IsDigit(r[i])
        \/ /\ Cardinality(dots) = 1
           /\ Min(dots) < Len(r)
           /\ \A i \in 1..Len(r) : IsDigit(r[i]) \/ r[i] = 46

\* re.match('^-\d+$|^-\d*\.\d+$', arg): $ also matches just before a newline
\* that ends the string.
NegativeNumber(arg) ==
  \/ FullNegative(arg)
  \/ arg[Len(arg)] = 10 /\ FullNegative(SubSeq(arg, 1, Len(arg) - 1))

\* ArgumentParser._parse_optional.
parse_optional(arg) ==
  IF arg = << >> THEN Positional
  ELSE IF arg[1] # 45 THEN Positional
  ELSE IF arg \in OptionStrings THEN Optional(Action(arg), arg, None)
  ELSE IF Len(arg) = 1 THEN Positional
  ELSE LET eq == Positions(61, arg)
           head == SubSeq(arg, 1, Min(eq) - 1)
           tail == SubSeq(arg, Min(eq) + 1, Len(arg))
           tuples == get_option_tuples(arg)
       IN IF eq # {} /\ head \in OptionStrings THEN Optional(Action(head), head, Some(tail))
          ELSE IF Cardinality(tuples) > 1 THEN Ambiguous
          ELSE IF Cardinality(tuples) = 1 THEN CHOOSE t \in tuples : TRUE
          ELSE IF NegativeNumber(arg) THEN Positional
          ELSE IF 32 \in Range(arg) THEN Positional
          ELSE Optional("none", arg, None)

\* The reading of every argument string: the first '--' is the marker and
\* every string after it is a positional argument.
Classes(argv) ==
  LET dd == { i \in 1..Len(argv) : argv[i] = DoubleDash }
  IN [ i \in 1..Len(argv) |->
         IF dd # {} /\ i > Min(dd) THEN Positional
         ELSE IF dd # {} /\ i = Min(dd) THEN Marker
         ELSE parse_optional(argv[i]) ]

RECURSIVE SkipDashes(_, _)
SkipDashes(cls, j) ==
  IF j <= Len(cls) /\ cls[j].kind = "-" THEN SkipDashes(cls, j + 1) ELSE j

\* The argument strings the next (at most k) positionals take from j on: each
\* matches -*A-*, greedily.  A sequence of << first, last >> index pairs.
RECURSIVE match_arguments_partial(_, _, _)
match_arguments_partial(cls, j, k) ==
  LET a == SkipDashes(cls, j)
  IN IF k > 0 /\ a <= Len(cls) /\ cls[a].kind = "A"
     THEN LET e == SkipDashes(cls, a + 1)
          IN << << j, e - 1 >> >> \o match_arguments_partial(cls, e, k - 1)
     ELSE << >>

\* ArgumentParser._get_values for an argument of nargs=None: the first '--'
\* is dropped; one string left is the value, anything else is kept as a list
\* (here always the empty list: one '--' alone).
get_values(arg_strings) ==
  LET p == Positions(DoubleDash, arg_strings)
      rest == IF p = {} THEN arg_strings
              ELSE SubSeq(arg_strings, 1, Min(p) - 1)
                   \o SubSeq(arg_strings, Min(p) + 1, Len(arg_strings))
  IN IF Len(rest) = 1 THEN [list |-> FALSE, val |-> rest[1]]
     ELSE [list |-> TRUE, val |-> << >>]

\* What consume_optional leaves: the process exit it forces, or the index to
\* go on from, the price it stored (list: the empty list) and whether the
\* option is one the parser does not know.
Stop(code) ==
  [exit |-> Some(code), stop |-> 0, set |-> FALSE, price |-> None, list |-> FALSE,
   extra |-> FALSE]

\* The store action of --price for the value v of the argument and its
\* conversion f by float (type=float): a ValueError is a usage error.
Store(v, f, stop) ==
  IF v.list
  THEN [exit |-> None, stop |-> stop, set |-> TRUE, price |-> None, list |-> TRUE,
        extra |-> FALSE]
  ELSE IF f.k = "err" THEN Stop(2)
  ELSE [exit |-> None, stop |-> stop, set |-> TRUE, price |-> Some(f), list |-> FALSE,
        extra |-> FALSE]

Convert(v, stop) == Store(v, float(v.val), stop)

\* The option o read at index i: the help action exits with status 0, an
\* error with status 2; --price takes the argument given with '=' or the next
\* argument string.
Consume(o, argv, cls, i) ==
  IF o.action = "none"
  THEN [exit |-> None, stop |-> i + 1, set |-> FALSE, price |-> None, list |-> FALSE,
        extra |-> TRUE]
  ELSE IF o.action = "help"
  THEN IF o.explicit = None THEN Stop(0)
       ELSE IF /\ o.option = HelpShort
               /\ o.explicit[1] # << >>
               /\ \A j \in 1..Len(o.explicit[1]) : o.explicit[1][j] = 104
         THEN Stop(0)
       ELSE Stop(2)
  ELSE IF o.explicit # None \/ (i + 1 <= Len(argv) /\ cls[i + 1].kind = "A")
  THEN Convert(get_values(<< IF o.explicit # None THEN o.explicit[1] ELSE argv[i + 1] >>),
               IF o.explicit # None THEN i + 1 ELSE i + 2)
  ELSE Stop(2)

\* consume_optional at the option of index i.
consume_optional(argv, cls, i) == Consume(cls[i], argv, cls, i)

Exit(code) == [exit |-> Some(code), args |-> None]

\* The attributes of the parsed arguments; lists names the attributes whose
\* value is the empty list and not a str (a float for price).
Namespace(vals, price, list) ==
  [symbol |-> vals[1].val, side |-> vals[2].val, order_type |-> vals[3].val,
   quantity |-> vals[4].val, price |-> price,
   lists |-> { << "symbol", "side", "order_type", "quantity" >>[i] :
                 i \in { j \in 1..4 : vals[j].list } }
             \cup (IF list THEN { "price" } ELSE {})]

\* ArgumentParser._parse_known_args from the argument of index st.i on:
\* positionals and options interleaved, then the required arguments and the
\* unrecognized ones (status 2).
RECURSIVE parse_known_args(_, _, _)
RECURSIVE consume_positionals(_, _, _, _, _)
RECURSIVE Interleave(_, _, _, _, _, _)
RECURSIVE AfterOptional(_, _, _, _, _)

\* opts: the indices of the options from st.i on; groups: the argument
\* strings the positionals still to come take from st.i on.
parse_known_args(argv, cls, st) ==
  consume_positionals(argv, cls, st, { x \in st.i..Len(argv) : cls[x].kind = "O" },
                      match_arguments_partial(cls, st.i, 4 - Len(st.vals)))

\* The index after the strings taken, and the values so far.
consume_positionals(argv, cls, st, opts, groups) ==
  Interleave(argv, cls, st, opts,
             IF groups = << >> THEN st.i ELSE groups[Len(groups)][2] + 1,
             st.vals \o [ g \in 1..Len(groups) |->
                          get_values(SubSeq(argv, groups[g][1], groups[g][2])) ])

Interleave(argv, cls, st, opts, stop, vals) ==
  IF opts = {}
  THEN IF Len(vals) < 4 \/ st.extras \/ stop <= Len(argv) THEN Exit(2)
       ELSE [exit |-> None, args |-> Some(Namespace(vals, st.price, st.list))]
  ELSE IF st.i # Min(opts) /\ stop > st.i
  THEN parse_known_args(argv, cls, [i |-> stop, vals |-> vals, price |-> st.price,
                                   list |-> st.list, extras |-> st.extras])
  ELSE AfterOptional(argv, cls, st, Min(opts), consume_optional(argv, cls, Min(opts)))

\* o: what consume_optional left at the option of index at.
AfterOptional(argv, cls, st, at, o) ==
  IF o.exit # None THEN Exit(o.exit[1])
  ELSE parse_known_args(argv, cls,
         [i |-> o.stop, vals |-> st.vals,
          price |-> IF o.set THEN o.price ELSE st.price,
          list |-> IF o.set THEN o.list ELSE st.list,
          extras |-> st.extras \/ o.extra \/ st.i # at])

\* parser.parse_args(): the process exit it forces (SystemExit) or the
\* parsed arguments; an ambiguous abbreviation is a usage error.  argv is the
\* sequence of the command line arguments.
parse_args(argv) ==
  IF \E i \in 1..Len(argv) : Classes(argv)[i].kind = "ambiguous" THEN Exit(2)
  ELSE parse_known_args(argv, Classes(argv), [i |-> 1, vals |-> << >>, price |-> None,
                                              list |-> FALSE, extras |-> FALSE])

\* "not args.price": the price is None, the empty list or a zero.
PriceMissing(a) ==
  IF "price" \in a.lists THEN TRUE
  ELSE IF a.price = None THEN TRUE
  ELSE ~Truthy(a.price[1])

NoOrder == [err |-> "none", symbol |-> None, side |-> None, order_type |-> None,
            quantity |-> None, price |-> None, warned |-> FALSE]

\* STEP 1 of main ends with an exception: a ValueError or, for an argument
\* that is a list, the AttributeError of list.upper or the TypeError of
\* float(list).
Fail(kind, w) ==
  [err |-> kind, symbol |-> None, side |-> None, order_type |-> None,
   quantity |-> None, price |-> None, warned |-> w]

\* The order main holds after STEP 1.
Order(symbol, side, order_type, quantity, price, w) ==
  [err |-> "none", symbol |-> Some(symbol), side |-> Some(side),
   order_type |-> Some(order_type), quantity |-> Some(quantity), price |-> price,
   warned |-> w]

ValidatePrice(sy, si, ot, qt, pr) ==
  IF ~pr.ok THEN Fail(pr.err, qt.warn)
  ELSE Order(sy.val, si.val, ot.val, qt.val, Some(pr.val), qt.warn)

\* price is None for a MARKET order whatever --price says.
ValidateLimit(a, sy, si, ot, qt) ==
  IF ~qt.ok THEN Fail(qt.err, FALSE)
  ELSE IF ot.val # LIMIT THEN Order(sy.val, si.val, ot.val, qt.val, None, qt.warn)
  ELSE IF PriceMissing(a) THEN Fail("price_required", qt.warn)
  ELSE ValidatePrice(sy, si, ot, qt, validate_price(str(a.price[1])))

ValidateQuantity(a, sy, si, ot) ==
  IF ~ot.ok THEN Fail(ot.err, FALSE)
  ELSE IF "quantity" \in a.lists THEN Fail("TypeError", FALSE)
  ELSE ValidateLimit(a, sy, si, ot, validate_quantity(a.quantity))

ValidateType(a, sy, si) ==
  IF ~si.ok THEN Fail(si.err, FALSE)
  ELSE IF "order_type" \in a.lists THEN Fail("AttributeError", FALSE)
  ELSE ValidateQuantity(a, sy, si, validate_order_type(a.order_type))

ValidateSide(a, sy) ==
  IF ~sy.ok THEN Fail(sy.err, FALSE)
  ELSE IF "side" \in a.lists THEN Fail("AttributeError", FALSE)
  ELSE ValidateType(a, sy, validate_side(a.side))

\* STEP 1 of main: the validators in order (each one on the results sy, si,
\* ot, qt, pr of those before it); the first exception ends the step.
Validate(a) ==
  IF "symbol" \in a.lists THEN Fail("AttributeError", FALSE)
  ELSE ValidateSide(a, validate_symbol(a.symbol))

\* "not x" for an optional string: None and '' are falsy.
Falsy(x) == IF x = None THEN TRUE ELSE x[1] = << >>

\* The test with 'and' for 'or': only both credentials missing counts.
CredentialsMissingBoth(api_key, api_secret) == Falsy(api_key) /\ Falsy(api_secret)

\* STEP 2 of main: "not api_key or not api_secret".
CredentialsMissing(api_key, api_secret) ==
  IF Falsy(api_key) THEN TRUE ELSE Falsy(api_secret)

YES == Str(<< "y","e","s" >>)

\* print_order_summary: the value returned for the line typed at the prompt.
Confirmed(line) == Lower(line) = YES

\* A dispatch that sends every order as a market order.
place_order_always_market(order_type, symbol, side, quantity, price, outcome) ==
  place_market_order(symbol, side, quantity, outcome)

\* STEP 5 of main: the gateway call chosen by the validated order type.
place_order(order_type, symbol, side, quantity, price, outcome) ==
  IF order_type = MARKET THEN place_market_order(symbol, side, quantity, outcome)
  ELSE place_limit_order(symbol, side, quantity, price[1], outcome)

\* print_order_result: the advice printed after the order record.
Advice(response) == IF response.type = LIMIT THEN "limit_active" ELSE "market_executed"

\* ------------------------------------------------------------ the runs

VARIABLES
  argv,         \* the command line: the argument strings after the program name
  env,          \* the environment: [key, secret], each None or a string
  pc,           \* the step or the except clause main is at
  args,         \* the parsed arguments (None before ParseArgs)
  order,        \* symbol, side, order_type, quantity, price held by main
  prompts,      \* confirmation prompts shown
  answer,       \* the line typed at the prompt (None: none was read)
  clients,      \* BinanceFuturesClient constructions
  calls,        \* the create-order requests sent to the exchange client
  response,     \* the order record returned (None: none)
  raised,       \* the exception the gateway raised to main
  failure,      \* the exception an except clause of main is handling
  caughtAt,     \* the except clause that ended the run
  interruptAt,  \* the step or except clause a KeyboardInterrupt arrived at
  how,          \* how the run ended
  advice,       \* the advice print_order_result printed
  exitCode,     \* the exit status of the process (None: still running)
  symRaw,       \* the input of a validate_symbol run
  symResult     \* its result

vars == << argv, env, pc, args, order, prompts, answer, clients, calls, response,
           raised, failure, caughtAt, interruptAt, how, advice, exitCode, symRaw,
           symResult >>

BTCUSDT == Str(<< "B","T","C","U","S","D","T" >>)

\* Symbols: plain, padded with a no-break space, with a character outside the
\* class, and with a long s (chr(383)), which upper() turns into 'S'.
ArgSymbols == { BTCUSDT,
                << 160 >> \o Str(<< "e","t","h","u","s","d","t" >>),
                Str(<< "B","T","C","-","U","S","D" >>),
                << 383 >> \o Str(<< "o","l","u","s","d","t" >>) }
ArgSides == { BUY, Str(<< "s","e","l","l" >>) \o << 10 >>, Str(<< "H","O","L","D" >>) }
ArgTypes == { MARKET, Str(<< "l","i","m","i","t" >>), Str(<< "S","T","O","P" >>) }

\* Quantities: plain ones, an underscore in the exponent, a vertical tab and
\* a unit separator (chr(31)) in front, a fullwidth digit (chr(65297)), an
\* underflow and a negative zero.
ArgQuantities == { Str(<< "0",".","0","0","1" >>), Str(<< ".","0","0","0","5" >>),
                   Str(<< "0" >>), Str(<< "-","1" >>), Str(<< "a","b","c" >>),
                   Str(<< "n","a","n" >>), Str(<< "1" >>),
                   Str(<< "1","e","1","_","0" >>), << 11 >> \o Str(<< "1" >>),
                   << 31 >> \o Str(<< "1" >>), << 65297 >>,
                   Str(<< "1","e","-","4","0","0" >>), Str(<< "-","0",".","0" >>) }

\* The argument of --price (None: no --price on the command line).
ArgPrices == { None, Some(Str(<< "2","5","0","0" >>)), Some(Str(<< "0" >>)),
               Some(Str(<< "-","5" >>)), Some(Str(<< "n","a","n" >>)),
               Some(Str(<< "a","b","c" >>)), Some(Str(<< "0",".","5" >>)),
               Some(Str(<< "1","e","4","0","0" >>)), Some(Str(<< "-","0",".","0" >>)),
               Some(Str(<< "1","e","-","4","0","0" >>)) }

\* cli.py SYMBOL SIDE TYPE QUANTITY [--price PRICE]
CommandLine(sy, si, ot, qt, pr) ==
  << sy, si, ot, qt >> \o (IF pr = None THEN << >> ELSE << PriceOption, pr[1] >>)

ONE == Str(<< "1" >>)
FIVE == Str(<< "5" >>)
limit == Str(<< "l","i","m","i","t" >>)

\* Command lines of other shapes: help, a missing or an extra argument, the
\* price given with '=', between the positionals or by an abbreviation, '--'
\* in the place of an argument, an ambiguous abbreviation, an unknown option,
\* and numbers of more than 15 significant digits.
OtherCommandLines ==
  { << HelpShort >>,
    << Str(<< "-","h","h" >>) >>,
    << BTCUSDT, BUY, MARKET >>,
    << BTCUSDT, BUY, MARKET, ONE, FIVE >>,
    << BTCUSDT, BUY, limit, ONE, PriceOption \o Str(<< "=","5" >>) >>,
    << BTCUSDT, PriceOption, FIVE, BUY, limit, ONE >>,
    << BTCUSDT, BUY, limit, ONE, Str(<< "-","-","p","r","i" >>), FIVE >>,
    << BTCUSDT, BUY, limit, ONE, PriceOption \o Str(<< "=","-","-" >>) >>,
    << DoubleDash, BTCUSDT, DoubleDash, MARKET, ONE >>,
    << BTCUSDT, BUY, MARKET, DoubleDash, DoubleDash >>,
    << BTCUSDT, BUY, MARKET, ONE, Str(<< "-","-","=","x" >>) >>,
    << BTCUSDT, BUY, MARKET, Str(<< "-","1","e","5" >>) >>,
    << BTCUSDT, BUY, MARKET,
       Str(<< "0",".","0","0","0","9","9","9","9","9","9","9","9","9","9","9","9","9","9","9","9","9" >>) >>,
    << BTCUSDT, BUY, MARKET, Str(<< "2","e","-","3","2","4" >>) >>,
    << BTCUSDT, BUY, limit, ONE, PriceOption,
       Str(<< "0",".","3","0","0","0","0","0","0","0","0","0","0","0","0","0","0","0","4" >>) >> }

Argvs ==
  { CommandLine(sy, si, ot, Str(<< "0",".","0","0","1" >>), pr) :
      sy \in ArgSymbols, si \in ArgSides, ot \in ArgTypes,
      pr \in { None, Some(Str(<< "2","5","0","0" >>)) } }
  \cup { CommandLine(BTCUSDT, BUY, ot, qt, pr) :
           ot \in { MARKET, limit }, qt \in ArgQuantities, pr \in ArgPrices }
  \cup OtherCommandLines

EnvValues == { None, Some(<< >>), Some(Str(<< "k" >>)) }

\* Lines typed at the prompt; the last one is 'YES' in fullwidth letters.
Answers == { YES, Str(<< "Y","E","S" >>), Str(<< "Y","e","s" >>), Str(<< "n","o" >>),
             Str(<< " ","y","e","s" >>), Str(<< "y" >>), << >>,
             << 65337, 65317, 65331 >> }

\* The state of a process that has not run yet.
Fresh ==
  /\ args = None /\ order = NoOrder /\ prompts = 0 /\ answer = None
  /\ clients = 0 /\ calls = << >> /\ response = None /\ raised = "none"
  /\ failure = "none" /\ caughtAt = "none" /\ interruptAt = "none" /\ how = "running"
  /\ advice = "none" /\ exitCode = None
  /\ symResult = [ok |-> FALSE, val |-> None, err |-> "none", warn |-> FALSE]

Init ==
  /\ argv \in Argvs
  /\ env \in [key : EnvValues, secret : EnvValues]
  /\ pc = "ParseArgs"
  /\ symRaw = << >>
  /\ Fresh

\* The run ends: the exit status, the clause that caught and the reason.
End(code, clause, reason) ==
  /\ pc' = "done"
  /\ exitCode' = Some(code)
  /\ caughtAt' = clause
  /\ how' = reason

\* The run goes on at the step or except clause next.
Goto(next) ==
  /\ pc' = next
  /\ UNCHANGED << exitCode, caughtAt, how, interruptAt >>

\* A KeyboardInterrupt inside the try block of main (its inner try blocks and
\* their except clauses included): main goes on at the clause "except
\* KeyboardInterrupt".
Interrupted(step) ==
  /\ interruptAt' = step
  /\ pc' = "except KeyboardInterrupt"
  /\ UNCHANGED << exitCode, caughtAt, how >>

\* A KeyboardInterrupt outside the try block, or inside the last except clause
\* of main: no clause catches it, the interpreter ends by SIGINT (status 130).
Uncaught(step) ==
  /\ interruptAt' = step
  /\ End(130, "uncaught", "interrupted")

\* The clause "except KeyboardInterrupt" of main: one line is printed, return
\* 0.  A second KeyboardInterrupt arriving at that print is raised inside
\* the clause and caught by none: the interpreter ends by SIGINT (status 130).
ExceptKeyboardInterrupt ==
  /\ pc = "except KeyboardInterrupt"
  /\ \/ End(0, "except KeyboardInterrupt", "interrupted")
     \/ End(130, "uncaught", "interrupted twice")
  /\ UNCHANGED << argv, env, args, order, prompts, answer, clients, calls, response,
                  raised, failure, interruptAt, advice, symRaw, symResult >>

\* print_banner() and parser.parse_args() run before the try block: argparse
\* exits the process itself (0 after -h, 2 after a usage error), and a
\* KeyboardInterrupt is not caught.
ParseArgs ==
  /\ pc = "ParseArgs"
  /\ \E r \in { parse_args(argv) } :
       \/ Uncaught("ParseArgs") /\ UNCHANGED args
       \/ /\ r.exit # None
          /\ End(r.exit[1], "SystemExit", IF r.exit[1] = 0 THEN "help" ELSE "usage")
          /\ UNCHANGED << args, interruptAt >>
       \/ /\ r.exit = None
          /\ args' = r.args
          /\ Goto("Validate")
  /\ UNCHANGED << argv, env, order, prompts, answer, clients, calls, response, raised,
                  failure, advice, symRaw, symResult >>

\* STEP 1: validation.  A ValueError goes to the inner except clause, any
\* other exception to the last except clause of main.  A KeyboardInterrupt
\* arrives before or after the warning validate_quantity prints for a
\* quantity below 0.001.
ValidateStep ==
  /\ pc = "Validate"
  /\ \E v \in { Validate(args[1]) } :
       \/ /\ \E w \in { FALSE, v.warned } : order' = [order EXCEPT !.warned = w]
          /\ Interrupted("Validate")
          /\ UNCHANGED failure
       \/ /\ v.err \in { "AttributeError", "TypeError" }
          /\ order' = v
          /\ failure' = "crashed" /\ Goto("except Exception")
       \/ /\ v.err \notin { "none", "AttributeError", "TypeError" }
          /\ order' = v
          /\ failure' = "invalid" /\ Goto("except ValueError")
       \/ /\ v.err = "none"
          /\ order' = v
          /\ Goto("Credentials")
          /\ UNCHANGED failure
  /\ UNCHANGED << argv, env, args, prompts, answer, clients, calls, response, raised,
                  advice, symRaw, symResult >>

\* The clause "except ValueError" of STEP 1: the error is logged and printed,
\* return 1; a KeyboardInterrupt in the clause is caught by the outer try.
ExceptValueError ==
  /\ pc = "except ValueError"
  /\ \/ Interrupted("except ValueError")
     \/ End(1, "except ValueError", failure) /\ UNCHANGED interruptAt
  /\ UNCHANGED << argv, env, args, order, prompts, answer, clients, calls, response,
                  raised, failure, advice, symRaw, symResult >>

\* STEP 2: the credentials of the environment; when one is missing, five
\* lines are printed and main returns 1.
Credentials ==
  /\ pc = "Credentials"
  /\ \/ Interrupted("Credentials")
     \/ /\ CredentialsMissing(env.key, env.secret)
        /\ End(1, "return", "no_credentials")
        /\ UNCHANGED interruptAt
     \/ /\ ~CredentialsMissing(env.key, env.secret)
        /\ Goto("Confirm")
  /\ UNCHANGED << argv, env, args, order, prompts, answer, clients, calls, response,
                  raised, failure, advice, symRaw, symResult >>

\* STEP 3: the summary is printed, then input() shows the prompt: it returns
\* a line, raises EOFError (caught by the last clause of main) or is
\* interrupted.  A KeyboardInterrupt can still arrive after the line was
\* read; a line that is no confirmation is followed by one more print and
\* return 0.
Confirm ==
  /\ pc = "Confirm"
  /\ \/ /\ prompts' = prompts + 1
        /\ \/ \E line \in Answers :
                /\ answer' = Some(line)
                /\ UNCHANGED failure
                /\ \/ /\ Confirmed(line)
                      /\ Goto("Connect")
                   \/ /\ ~Confirmed(line)
                      /\ End(0, "return", "declined")
                      /\ UNCHANGED interruptAt
                   \/ Interrupted("Confirm")
           \/ failure' = "eof" /\ Goto("except Exception") /\ UNCHANGED answer
           \/ Interrupted("Confirm") /\ UNCHANGED << answer, failure >>
     \/ Interrupted("Confirm") /\ UNCHANGED << prompts, answer, failure >>
  /\ UNCHANGED << argv, env, args, order, clients, calls, response, raised, advice,
                  symRaw, symResult >>

\* STEP 4: one line is printed, then BinanceFuturesClient(api_key,
\* api_secret) is constructed; a failure of the exchange client's constructor
\* is logged, raised again and caught by the except clause of the step.
Connect ==
  /\ pc = "Connect"
  /\ \/ Interrupted("Connect") /\ UNCHANGED << clients, failure >>
     \/ /\ clients' = clients + 1
        /\ \/ Interrupted("Connect") /\ UNCHANGED failure
           \/ failure' = "connect_failed" /\ Goto("except Exception (connect)")
           \/ Goto("Submit") /\ UNCHANGED failure
  /\ UNCHANGED << argv, env, args, order, prompts, answer, calls, response, raised,
                  advice, symRaw, symResult >>

\* The except clause of STEP 4: two lines are printed, return 1.
ExceptConnect ==
  /\ pc = "except Exception (connect)"
  /\ \/ Interrupted("except Exception (connect)")
     \/ End(1, "except Exception (connect)", failure) /\ UNCHANGED interruptAt
  /\ UNCHANGED << argv, env, args, order, prompts, answer, clients, calls, response,
                  raised, failure, advice, symRaw, symResult >>

\* STEP 5: one line is printed, then the gateway method is called; the
\* wrapped failure it raises goes to the except clause of the step.
Submit ==
  /\ pc = "Submit"
  /\ \/ /\ Interrupted("Submit")
        /\ UNCHANGED << calls, response, raised, failure >>
     \/ \E outcome \in Outcomes :
          \E g \in { place_order(order.order_type[1], order.symbol[1], order.side[1],
                                 order.quantity[1], order.price, outcome) } :
            /\ calls' = calls \o g.calls
            /\ response' = g.response
            /\ raised' = g.raised
            /\ \/ /\ g.raised = "KeyboardInterrupt"
                  /\ Interrupted("Submit")
                  /\ UNCHANGED failure
               \/ /\ g.raised \notin { "none", "KeyboardInterrupt" }
                  /\ failure' = "submit_failed" /\ Goto("except Exception (submit)")
               \/ /\ g.raised = "none"
                  /\ Goto("Report")
                  /\ UNCHANGED failure
  /\ UNCHANGED << argv, env, args, order, prompts, answer, clients, advice, symRaw,
                  symResult >>

\* STEP 6, inside the try block of STEP 5: print_order_result(response), one
\* logger.info, return 0.  An exception raised here (by a print, or by the
\* record) goes to the except clause of STEP 5 with the order placed.
Report ==
  /\ pc = "Report"
  /\ \/ /\ advice' = Advice(response[1])
        /\ End(0, "return", "placed")
        /\ UNCHANGED << interruptAt, failure >>
     \/ \E printed \in { "none", Advice(response[1]) } :
          /\ advice' = printed
          /\ \/ Interrupted("Report") /\ UNCHANGED failure
             \/ failure' = "report_failed" /\ Goto("except Exception (submit)")
  /\ UNCHANGED << argv, env, args, order, prompts, answer, clients, calls, response,
                  raised, symRaw, symResult >>

\* The except clause of STEP 5: "Failed to place order" is printed and
\* logged, return 1.
ExceptSubmit ==
  /\ pc = "except Exception (submit)"
  /\ \/ Interrupted("except Exception (submit)")
     \/ End(1, "except Exception (submit)", failure) /\ UNCHANGED interruptAt
  /\ UNCHANGED << argv, env, args, order, prompts, answer, clients, calls, response,
                  raised, failure, advice, symRaw, symResult >>

\* The last except clause of main: "Unexpected error" is printed and logged,
\* return 1.  A KeyboardInterrupt in this clause is caught by no clause.
ExceptException ==
  /\ pc = "except Exception"
  /\ \/ Uncaught("except Exception")
     \/ End(1, "except Exception", failure) /\ UNCHANGED interruptAt
  /\ UNCHANGED << argv, env, args, order, prompts, answer, clients, calls, response,
                  raised, failure, advice, symRaw, symResult >>

Next ==
  \/ ParseArgs
  \/ ValidateStep
  \/ ExceptValueError
  \/ Credentials
  \/ Confirm
  \/ Connect
  \/ ExceptConnect
  \/ Submit
  \/ Report
  \/ ExceptSubmit
  \/ ExceptException
  \/ ExceptKeyboardInterrupt

Spec == Init /\ [][Next]_vars

\* --------------------------------------------- validate_symbol on its own

\* The longest run of one character in an input of validate_symbol.
MaxRun == 7

\* Inputs: padding, a run, one more character or none, a run, padding.  The
\* padding is a space, a no-break space (chr(160)), a newline or a unit
\* separator (chr(31)); the characters are b, B, 7, a long s (chr(383)), a
\* sharp s (chr(223), upper-cased to 'SS'), a dotless i (chr(305)), '-', 'Z'.
SymbolInputs ==
  { p1 \o [ i \in 1..n1 |-> c1 ] \o mid \o [ i \in 1..n2 |-> c2 ] \o p2 :
      p1 \in { << >>, << 32 >>, << 160 >> }, p2 \in { << >>, << 10 >>, << 31 >> },
      c1 \in { 98, 66, 55, 383, 223 }, c2 \in { 98, 55 },
      n1 \in 0..MaxRun, n2 \in 0..MaxRun,
      mid \in { << >>, << 45 >>, << 10 >>, << 90 >>, << 305 >> } }

InitSymbol ==
  /\ argv = << >>
  /\ env = [key |-> None, secret |-> None]
  /\ pc = "validate_symbol"
  /\ symRaw \in SymbolInputs
  /\ Fresh

CallValidateSymbol ==
  /\ pc = "validate_symbol"
  /\ symResult' = validate_symbol(symRaw)
  /\ pc' = "returned"
  /\ UNCHANGED << argv, env, args, order, prompts, answer, clients, calls, response,
                  raised, failure, caughtAt, interruptAt, how, advice, exitCode,
                  symRaw >>

SpecSymbol == InitSymbol /\ [][CallValidateSymbol]_vars

\* --------------------------------------------------------------- claims

\* A positive number: a positive double or +infinity (never a NaN).
Positive(v) ==
  \/ v.k = "num" /\ ~v.neg /\ v.ds # << >>
  \/ v.k = "inf" /\ ~v.neg

\* A credential of the environment is missing or empty.
EnvMissing == env.key \in { None, Some(<< >>) } \/ env.secret \in { None, Some(<< >>) }

\* STEP 1 has completed without an exception.
Validated == order.err = "none" /\ order.symbol # None

\* STEP 1 has raised: a ValueError or another exception.
ValidationFailed == order.err # "none"

NoGatewayUse == clients = 0 /\ calls = << >>

\* The end of a run a KeyboardInterrupt arrived in: exit code 0 when the
\* clause "except KeyboardInterrupt" caught it and returned, status 130 when
\* no clause caught it or a second one arrived in that clause.
EndsInterrupted ==
  \/ exitCode = Some(0) /\ caughtAt = "except KeyboardInterrupt"
  \/ exitCode = Some(130) /\ caughtAt = "uncaught"

\* STEP 1 raised, or STEP 1 succeeded and a credential is missing or empty.
FailedRun == ValidationFailed \/ (Validated /\ EnvMissing)

\* C1 as stated: every run where validation fails, or where a credential is
\* missing or empty, never shows the confirmation prompt, never constructs
\* BinanceFuturesClient, never issues a create-order call, and ends with exit
\* code 1 (stated here for the runs main ends by a return: the runs a
\* KeyboardInterrupt kills are those of C8).
C1_Original_FailuresExitOne ==
  /\ (ValidationFailed \/ EnvMissing) => (prompts = 0 /\ NoGatewayUse)
  /\ (pc = "done" /\ FailedRun /\ caughtAt # "uncaught") => exitCode = Some(1)

\* C1 as amended: a run where validation fails, or where a credential is
\* missing or empty, never shows the confirmation prompt, never constructs
\* BinanceFuturesClient and never issues a create-order call; once STEP 1 has
\* raised, main only runs except clauses; the run ends with exit code 1
\* unless a KeyboardInterrupt arrives first, in the clause "except
\* ValueError", in the credential messages or in the last except clause of
\* main: it then ends as an interrupted run, with exit code 0 when the clause
\* "except KeyboardInterrupt" returns and status 130 when no clause catches.
C1_FailuresNeverReachTheGateway ==
  /\ (ValidationFailed \/ EnvMissing) => (prompts = 0 /\ NoGatewayUse)
  /\ ValidationFailed
       => pc \in { "except ValueError", "except Exception", "except KeyboardInterrupt",
                   "done" }
  /\ (pc = "done" /\ FailedRun)
       => IF interruptAt = "none"
          THEN exitCode = Some(1) /\ how \in { "invalid", "crashed", "no_credentials" }
          ELSE /\ interruptAt \in { "except ValueError", "Credentials", "except Exception" }
               /\ EndsInterrupted
               /\ interruptAt = "except Exception" => exitCode = Some(130)

\* C1 witness: an invalid side; the clause "except ValueError" has returned 1
\* and no prompt was shown.
C1_Witness ==
  /\ pc = "done" /\ order.err = "side" /\ caughtAt = "except ValueError"
  /\ exitCode = Some(1) /\ prompts = 0

\* C2: when the line typed at the prompt, lower-cased, is not exactly 'yes',
\* the run makes no gateway call (no client construction, no create-order
\* call) and ends with exit code 0; a client is constructed and a create-order
\* call is issued only after an affirmative answer.
C2_DeclineMakesNoGatewayCall ==
  /\ (answer # None /\ Lower(answer[1]) # YES)
       => /\ NoGatewayUse
          /\ pc \in { "except KeyboardInterrupt", "done" }
          /\ pc = "done" => exitCode = Some(0)
  /\ (clients > 0 \/ calls # << >>) => (answer # None /\ Lower(answer[1]) = YES)

\* A valid input (a positive quantity and, for a LIMIT order, a positive
\* price), credentials present, the prompt answered affirmatively.
ValidConfirmed ==
  /\ Validated
  /\ Positive(order.quantity[1])
  /\ order.price # None => Positive(order.price[1])
  /\ ~EnvMissing
  /\ answer # None /\ Lower(answer[1]) = YES

\* The one request main is to send: the normalized symbol and side, the
\* parsed quantity and, for a LIMIT order, the price of the command line.
ExpectedRequest ==
  LET a == args[1]
      ot == Strip(Upper(a.order_type))
  IN [symbol |-> Strip(Upper(a.symbol)),
      side |-> Strip(Upper(a.side)),
      type |-> ot,
      quantity |-> float(a.quantity),
      price |-> IF ot = LIMIT THEN a.price ELSE None,
      timeInForce |-> IF ot = LIMIT THEN Some(GTC) ELSE None]

\* C3 as stated: every run with a valid input, credentials present and the
\* confirmation 'yes' issues exactly one gateway order call, chosen by the
\* validated order type and carrying the validated values, and whenever that
\* call returned an order record the run ends with exit code 0.
C3_Original_OneCallThenExitZero ==
  /\ (pc = "done" /\ ValidConfirmed) => (Len(calls) = 1 /\ calls[1] = ExpectedRequest)
  /\ (pc = "done" /\ response # None) => exitCode = Some(0)

\* C3 as amended: a run with a valid input, credentials present and the
\* confirmation 'yes' issues at most one gateway order call, chosen by the
\* validated order type and carrying the validated values; it issues exactly
\* one unless the construction of the client fails or a KeyboardInterrupt
\* arrives before the create-order call is issued; once the call has returned
\* an order record the run ends with exit code 0, unless an exception raised
\* while the result is reported is caught by the except clause of STEP 5,
\* which ends the run with exit code 1, or a KeyboardInterrupt arrives, after
\* which it ends as an interrupted run (exit code 0, or status 130 when a
\* second one arrives in the clause "except KeyboardInterrupt").
C3_OneCallWhenTheGatewayIsReached ==
  /\ ValidConfirmed
       => /\ Len(calls) <= 1
          /\ calls # << >> => (clients = 1 /\ calls[1] = ExpectedRequest)
  /\ (pc = "done" /\ ValidConfirmed /\ failure # "connect_failed"
        /\ interruptAt \notin { "Confirm", "Connect", "Submit" })
       => Len(calls) = 1
  /\ (pc = "done" /\ ValidConfirmed /\ failure = "connect_failed")
       => /\ calls = << >>
          /\ IF interruptAt = "none" THEN exitCode = Some(1) ELSE EndsInterrupted
  /\ (pc = "done" /\ response # None)
       => /\ Len(calls) = 1
          /\ IF interruptAt # "none" THEN EndsInterrupted
             ELSE IF failure = "report_failed"
             THEN exitCode = Some(1) /\ caughtAt = "except Exception (submit)"
             ELSE exitCode = Some(0) /\ how = "placed"

\* C3 witness: a LIMIT order confirmed with 'YES': one limit request with the
\* price of the command line, the record returned and reported, exit code 0.
C3_Witness ==
  /\ pc = "done" /\ ValidConfirmed /\ how = "placed" /\ exitCode = Some(0)
  /\ Len(calls) = 1 /\ calls[1].type = LIMIT /\ calls[1].price = args[1].price
  /\ response # None /\ advice = "limit_active"
  /\ answer = Some(Str(<< "Y","E","S" >>))

\* --price, in full, abbreviated or with '=', is on the command line.
PriceSupplied ==
  \E i \in 1..Len(argv) : Classes(argv)[i].kind = "O" /\ Classes(argv)[i].action = "price"

\* C4: a LIMIT order without --price fails with the missing-price error
\* before any network call and exits with code 1 (stated for the runs no
\* interrupt ends), and the missing-price error is produced only when --price
\* is absent.
C4_MissingPriceErrorOnlyWhenAbsent ==
  /\ (pc = "done" /\ args # None /\ interruptAt = "none"
        /\ order.err \in { "none", "price_required", "price" }
        /\ Strip(Upper(args[1].order_type)) = LIMIT /\ ~PriceSupplied)
       => (order.err = "price_required" /\ exitCode = Some(1) /\ NoGatewayUse)
  /\ order.err = "price_required" => ~PriceSupplied

\* C5: every run that no interrupt ends terminates with exit code 0 or 1 and
\* no other code: 0 only when the order was placed or the user declined (a
\* request for help counts with these), 1 for every failure.
C5_ExitCodeIsZeroOrOne ==
  (pc = "done" /\ interruptAt = "none")
    => /\ exitCode \in { Some(0), Some(1) }
       /\ exitCode = Some(0) <=> how \in { "placed", "declined", "help" }

\* The wrapped failure of a gateway method for the request it sent.
Wrapped(req) ==
  { "Binance API Error",
    IF req.type = MARKET THEN "Unexpected error placing market order"
    ELSE "Unexpected error placing limit order" }

\* The gateway raised a wrapped failure to main.
CallFailed == raised \notin { "none", "KeyboardInterrupt" }

C7_PricePresentIffLimitAndPositive ==
  /\ (Validated /\ prompts > 0)
       => /\ order.price # None <=> order.order_type = Some(LIMIT)
          /\ order.price # None => Positive(order.price[1])
  /\ \A i \in 1..Len(calls) : calls[i].type = MARKET => calls[i].price = None

\* C8: a KeyboardInterrupt arriving at any step (ParseArgs, Validate,
\* Confirm, Submit, Report) is caught at the top level of main and ends the
\* run with exit code 0.
C8_InterruptExitsZero ==
  (pc = "done" /\ interruptAt # "none")
    => (exitCode = Some(0) /\ caughtAt = "except KeyboardInterrupt")

\* The characters [A-Z0-9].
AZ09 == Range(Str(<< "A","B","C","D","E","F","G","H","I","J","K","L","M","N","O","P",
                     "Q","R","S","T","U","V","W","X","Y","Z",
                     "0","1","2","3","4","5","6","7","8","9" >>))

WellFormedSymbol(s) == Len(s) >= 5 /\ Len(s) <= 12 /\ \A i \in 1..Len(s) : s[i] \in AZ09

\* C9: validate_symbol(raw) succeeds exactly when the upper-cased and trimmed
\* raw string is 5 to 12 characters of [A-Z0-9], and then returns exactly that
\* string (a raw string of that form is returned unchanged); otherwise it
\* fails and returns nothing.
C9_ValidateSymbol ==
  pc = "returned" =>
    LET s == Strip(Upper(symRaw))
    IN /\ symResult.ok <=> WellFormedSymbol(s)
       /\ symResult.ok => symResult.val = s
       /\ ~symResult.ok => (symResult.val = None /\ symResult.err = "symbol")
       /\ WellFormedSymbol(symRaw) => (symResult.ok /\ symResult.val = symRaw)

\* C9 witness: an input of lower-case letters and sharp s between a no-break
\* space and a newline, accepted as a 12 character symbol.
C9_Witness ==
  /\ pc = "returned" /\ symResult.ok
  /\ Len(symResult.val) = 12 /\ Len(symRaw) < 12
  /\ symRaw[1] = 160 /\ symRaw[Len(symRaw)] = 10
  /\ 223 \in Range(symRaw) /\ 98 \in Range(symRaw)

\* C10: validate_quantity fails for every input that is non-numeric or <= 0
\* and returns the parsed value for every other input, which is always a
\* positive number; a value below 0.001 only warns and the run goes on.
C10_ValidatedQuantityIsPositive ==
  (args # None /\ pc \notin { "ParseArgs", "Validate" } /\ interruptAt # "Validate"
     /\ order.err \in { "none", "quantity", "price_required", "price" })
    => LET q == float(args[1].quantity)
       IN /\ (q.k = "err" \/ LeZero(q)) <=> order.err = "quantity"
          /\ order.quantity # None => (order.quantity[1] = q /\ Positive(q))
          /\ (Validated /\ LtMinQty(q)) => order.warned
====
